---- MODULE Spec2Model ----
(***************************************************************************)
(* Arcane Scribe: the FAISS index cache/merge engine and the answer cache  *)
(* of the RAG query processor, with the metadata table, the vector-store   *)
(* bucket and the local scratch area they act on.                          *)
(*                                                                         *)
(* Identifiers and strings are sequences of characters, so that the        *)
(* composite key, the scratch path and the object keys are computed by     *)
(* concatenation as the code computes them.                                *)
(***************************************************************************)
EXTENDS Integers, Sequences, FiniteSets, TLC

VARIABLES
    FAISS_INDEX_CACHE,  \* insertion-ordered dict: sequence of [key, store]
    docTable,           \* documents metadata table: <<partition, sort>> -> status
    s3Objects,          \* the two S3 buckets: <<bucket, object key>> -> content
    scratch,            \* directories existing under /tmp of the query process
    queryCache,         \* query cache table: query_hash -> item
    now,                \* wall clock of time.time(), in ticks
    insertLog,          \* history: keys inserted into FAISS_INDEX_CACHE, in order
    lastCall,           \* trace of the most recent handler call
    ingestTmp,          \* files and directories under /tmp of the ingestor
    threads             \* the calls in progress on the cache: thread -> frame

vars == <<FAISS_INDEX_CACHE, docTable, s3Objects, scratch, queryCache, now,
          insertLog, lastCall, ingestTmp, threads>>

----------------------------------------------------------------------------
(* Bounds of the model *)

NumOwners == 2
NumSrds == 4
NumDocs == 2
NumTenants == 6
MaxInserts == 7

(* Program constants *)

MAX_CACHE_SIZE == 5
CACHE_TTL_SECONDS == 3600

----------------------------------------------------------------------------
(* Identifiers *)

Digits == <<"0", "1", "2", "3", "4", "5", "6", "7", "8", "9">>

OwnerId(i) == <<"u", Digits[i + 1]>>
SrdId(i) == <<"s", Digits[i + 1]>>
DocId(i) == <<"d", Digits[i + 1]>>

Owners == {OwnerId(i) : i \in 1..NumOwners}
Srds == {SrdId(i) : i \in 1..NumSrds}
DocIds == {DocId(i) : i \in 1..NumDocs}

NoKey == <<>>
NoStore == <<>>

Statuses == {"pending", "processing", "completed", "failed"}

\* composite_key = f"{owner_id}#{srd_id}"
CompositeKey(owner_id, srd_id) == owner_id \o <<"#">> \o srd_id

\* object keys of the two parts of a document's index artifact
VectorKey(owner_id, srd_id, document_id, ext) ==
    owner_id \o <<"/">> \o srd_id \o <<"/", "vector_store", "/">>
        \o document_id \o <<ext>>

\* the object in the bucket VECTOR_STORE_BUCKET_NAME
VectorObj(owner_id, srd_id, document_id, ext) ==
    <<"VECTOR_STORE_BUCKET", VectorKey(owner_id, srd_id, document_id, ext)>>

\* object_key = f"{owner_id}/{srd_id}/{document_id}/{file_name}" in the bucket
\* DOCUMENTS_BUCKET_NAME
RawObj(owner_id, srd_id, document_id) ==
    <<"DOCUMENTS_BUCKET",
      owner_id \o <<"/">> \o srd_id \o <<"/">> \o document_id
          \o <<"/", "file.pdf">>>>

IndexParts == {".faiss", ".pkl"}

\* the files vector_store.save_local(folder_path, index_name=document_id)
\* writes, which os.listdir gives to the upload loop of the ingestor
SavedFiles(document_id) == {document_id \o <<e>> : e \in IndexParts}

UploadKeyDefaultName(owner_id, srd_id, file_name) ==
    owner_id \o <<"/">> \o srd_id \o <<"/", "vector_store">>
        \o <<"/", "index", file_name[Len(file_name)]>>

\* s3_target_key = f"{s3_index_prefix}/{file_name_in_index_dir}" with
\* s3_index_prefix = f"{owner_id}/{srd_id}/vector_store"
UploadKey(owner_id, srd_id, file_name) ==
    owner_id \o <<"/">> \o srd_id \o <<"/", "vector_store">>
        \o <<"/">> \o file_name

\* faiss_key and pickle_key of the delete endpoint
DeleteKey(owner_id, srd_id, document_id, ext) ==
    owner_id \o <<"/">> \o srd_id \o <<"/", "vector_store", "/">>
        \o document_id \o <<ext>>

\* composite_key.replace('#', '_')
ReplaceHash(s) == [i \in 1..Len(s) |-> IF s[i] = "#" THEN "_" ELSE s[i]]

\* temp_base_dir = f"/tmp/{composite_key.replace('#', '_')}", as path components
TempBaseDir(composite_key) == <<<<"tmp">>, ReplaceHash(composite_key)>>

\* os.path.join(temp_base_dir, document_id)
LocalFaissDir(composite_key, document_id) ==
    Append(TempBaseDir(composite_key), document_id)

IsPrefix(p, q) == Len(p) <= Len(q) /\ SubSeq(q, 1, Len(p)) = p

\* shutil.rmtree(path, ignore_errors=True)
RmTree(dirs, path) == {d \in dirs : ~IsPrefix(path, d)}

\* os.makedirs(path, exist_ok=True): the directory and its parents
MakeDirs(dirs, path) == dirs \cup {SubSeq(path, 1, n) : n \in 2..Len(path)}

----------------------------------------------------------------------------
(* The in-process index cache, a Python dict (insertion ordered) *)

CacheKeys(cache) == {cache[i].key : i \in 1..Len(cache)}

\* if composite_key in FAISS_INDEX_CACHE
CacheNeverHit(cache, key) == FALSE
CacheCheck(cache, key) == key \in CacheKeys(cache)

CacheGet(cache, key) ==
    LET i == CHOOSE j \in 1..Len(cache) : cache[j].key = key
    IN cache[i].store

\* a cache hit reads the dict and does not reorder it
CacheAfterHitLru(cache, key) ==
    SelectSeq(cache, LAMBDA e : e.key # key)
        \o SelectSeq(cache, LAMBDA e : e.key = key)
CacheAfterHit(cache, key) == cache

\* oldest_key = next(iter(FAISS_INDEX_CACHE)); FAISS_INDEX_CACHE.pop(oldest_key)
EvictOldest(cache) == Tail(cache)

\* FAISS_INDEX_CACHE[composite_key] = merged_vector_store
DictSet(cache, key, store) ==
    IF key \in CacheKeys(cache)
    THEN [i \in 1..Len(cache) |->
            IF cache[i].key = key THEN [key |-> key, store |-> store]
            ELSE cache[i]]
    ELSE Append(cache, [key |-> key, store |-> store])

\* step 5 of _load_and_merge_faiss_indices_for_srd
UpdateCacheLate(cache, key, store) ==
    IF Len(cache) > MAX_CACHE_SIZE
    THEN DictSet(EvictOldest(cache), key, store)
    ELSE DictSet(cache, key, store)
UpdateCache(cache, key, store) ==
    IF Len(cache) >= MAX_CACHE_SIZE
    THEN DictSet(EvictOldest(cache), key, store)
    ELSE DictSet(cache, key, store)

----------------------------------------------------------------------------
(* Metadata table and vector-store bucket, as the query processor reads them *)

\* a table or bucket is a function from the keys it holds; "absent" otherwise
Lookup(store, key) == IF key \in DOMAIN store THEN store[key] ELSE "absent"

RECURSIVE ItemsFrom(_, _, _)
ItemsFrom(table, pk, i) ==
    IF i > NumDocs THEN <<>>
    ELSE IF Lookup(table, <<pk, DocId(i)>>) = "absent"
    THEN ItemsFrom(table, pk, i + 1)
    ELSE <<[document_id |-> DocId(i),
            processing_status |-> table[<<pk, DocId(i)>>]]>>
         \o ItemsFrom(table, pk, i + 1)

ListDocumentRecordsTwice(table, owner_id, srd_id) ==
    ItemsFrom(table, CompositeKey(owner_id, srd_id), 1)
        \o ItemsFrom(table, CompositeKey(owner_id, srd_id), 1)

\* DatabaseService.list_document_records(...).get("Items", []): the records of
\* the partition owner_id#srd_id, in sort-key order
ListDocumentRecords(table, owner_id, srd_id) ==
    ItemsFrom(table, CompositeKey(owner_id, srd_id), 1)

ProcessedDocsAll(document_records) == document_records

\* the filter on processing_status == completed
ProcessedDocs(document_records) ==
    SelectSeq(document_records,
              LAMBDA doc : doc.processing_status = "completed")

LoadFaults ==
    {"none", "s3_client_error", "s3_other_error", "load_error",
     "no_document_id"}

\* the records as the loop sees them: doc.get("document_id") gives nothing
\* for a record that lacks the attribute
WithoutIds(docs, faults) ==
    [i \in 1..Len(docs) |->
        IF faults[docs[i].document_id] = "no_document_id"
        THEN [docs[i] EXCEPT !.document_id = <<>>] ELSE docs[i]]
EnvFaults == {"none", "db_error", "embedding_error", "merge_error"}

\* the try block of the loop body for one document: two downloads, then
\* FAISS.load_local. A missing object makes download_file raise ClientError.
LoadOne(bucket, owner_id, srd_id, document_id, fault) ==
    LET faiss == Lookup(bucket,
                        VectorObj(owner_id, srd_id, document_id, ".faiss"))
        pkl == Lookup(bucket,
                      VectorObj(owner_id, srd_id, document_id, ".pkl"))
    IN  IF fault = "s3_other_error"
        THEN [kind |-> "raise", s3Calls |-> 1, store |-> NoStore]
        ELSE IF fault = "s3_client_error" \/ faiss = "absent"
        THEN [kind |-> "client_error", s3Calls |-> 1, store |-> NoStore]
        ELSE IF pkl = "absent"
        THEN [kind |-> "client_error", s3Calls |-> 2, store |-> NoStore]
        ELSE IF fault = "load_error"
        THEN [kind |-> "raise", s3Calls |-> 2, store |-> NoStore]
        ELSE [kind |-> "ok", s3Calls |-> 2, store |-> <<faiss>>]

\* what the except clause of the loop does with an error raised in the try
\* block: only botocore ClientError is caught (logged, document skipped)
ExceptClause(kind) == IF kind = "client_error" THEN "skip" ELSE kind

RECURSIVE LoadLoop(_, _, _, _, _, _, _)
LoadLoop(bucket, owner_id, srd_id, docs, faults, i, acc) ==
    IF i > Len(docs) THEN acc
    ELSE LET document_id == docs[i].document_id IN
         IF document_id = <<>>
         THEN LoadLoop(bucket, owner_id, srd_id, docs, faults, i + 1, acc)
         ELSE
         LET dir == LocalFaissDir(CompositeKey(owner_id, srd_id), document_id)
             r == LoadOne(bucket, owner_id, srd_id, document_id,
                          faults[document_id])
             acc1 == [acc EXCEPT !.scratch = MakeDirs(@, dir),
                                 !.made = MakeDirs(@, dir),
                                 !.s3Calls = @ + r.s3Calls]
             h == ExceptClause(r.kind)
         IN  IF h = "ok"
             THEN LoadLoop(bucket, owner_id, srd_id, docs, faults, i + 1,
                           [acc1 EXCEPT !.stores = Append(@, r.store),
                                        !.loaded = @ \cup {document_id}])
             ELSE IF h = "skip"
             THEN LoadLoop(bucket, owner_id, srd_id, docs, faults, i + 1,
                           [acc1 EXCEPT !.errors = @ + 1])
             ELSE [acc1 EXCEPT !.raised = TRUE]

MergeStoresFirst(vector_stores, i) == vector_stores[1]

RECURSIVE MergeStoresReversed(_, _)
MergeStoresReversed(vector_stores, i) ==
    IF i = 1 THEN vector_stores[1]
    ELSE vector_stores[i] \o MergeStoresReversed(vector_stores, i - 1)

\* merged_vector_store = vector_stores[0]; merge_from each later one in order
RECURSIVE MergeStores(_, _)
MergeStores(vector_stores, i) ==
    IF i = 1 THEN vector_stores[1]
    ELSE MergeStores(vector_stores, i - 1) \o vector_stores[i]

\* the trace record of one call of _load_and_merge_faiss_indices_for_srd
IndexCall(o, s, outcome, store, cache, dirs, made, db, s3, err, ev, comp, ld) ==
    [op |-> "get_tenant_index", owner |-> o, srd |-> s,
     key |-> CompositeKey(o, s), outcome |-> outcome,
     store |-> store, cache |-> cache, scratch |-> dirs, made |-> made,
     dbCalls |-> db, s3Calls |-> s3, errors |-> err,
     evicted |-> ev, completed |-> comp, loaded |-> ld,
     hitBefore |-> NoKey, env |-> "none", faults |-> <<>>]

ReturnNoneCached(cache, key) == UpdateCache(cache, key, NoStore)

\* the cache as "return None" leaves it: every such return comes before the
\* cache update of step 5
ReturnNone(cache, key) == cache

\* _load_and_merge_faiss_indices_for_srd(owner_id, srd_id): the outcome
\* ("hit", "built", "none" for a None return, "raise" for an exception that
\* leaves the function), the new cache and scratch area, and the call's trace
LoadAndMerge(cache, table, bucket, dirs, owner_id, srd_id, env, faults) ==
    LET composite_key == CompositeKey(owner_id, srd_id)
        document_records == ListDocumentRecords(table, owner_id, srd_id)
        processed_docs == ProcessedDocs(document_records)
        completed == {processed_docs[i].document_id :
                        i \in 1..Len(processed_docs)}
        temp_base_dir == TempBaseDir(composite_key)
        acc0 == [stores |-> <<>>, loaded |-> {}, s3Calls |-> 0, errors |-> 0,
                 scratch |-> RmTree(dirs, temp_base_dir), made |-> {},
                 raised |-> FALSE]
        acc == LoadLoop(bucket, owner_id, srd_id,
                        WithoutIds(processed_docs, faults), faults, 1, acc0)
        cleaned == RmTree(acc.scratch, temp_base_dir)
        vector_stores == acc.stores
        merged == MergeStores(vector_stores, Len(vector_stores))
        full == Len(cache) >= MAX_CACHE_SIZE
    IN  IF CacheCheck(cache, composite_key)
        THEN IndexCall(owner_id, srd_id, "hit", CacheGet(cache, composite_key),
                       CacheAfterHit(cache, composite_key), dirs, {}, 0, 0, 0,
                       NoKey, {}, {})
        ELSE IF env = "db_error"
        THEN IndexCall(owner_id, srd_id, "none", NoStore,
                       ReturnNone(cache, composite_key), dirs, {},
                       1, 0, 1, NoKey, {}, {})
        ELSE IF document_records = <<>> \/ processed_docs = <<>>
        THEN IndexCall(owner_id, srd_id, "none", NoStore,
                       ReturnNone(cache, composite_key), dirs, {},
                       1, 0, 0, NoKey, completed, {})
        ELSE IF env = "embedding_error"
        THEN IndexCall(owner_id, srd_id, "raise", NoStore, cache, dirs, {},
                       1, 0, 0, NoKey, completed, {})
        ELSE IF acc.raised
        THEN IndexCall(owner_id, srd_id, "raise", NoStore, cache, acc.scratch,
                       acc.made, 1, acc.s3Calls, acc.errors, NoKey, completed,
                       acc.loaded)
        ELSE IF vector_stores = <<>>
        THEN IndexCall(owner_id, srd_id, "none", NoStore,
                       ReturnNone(cache, composite_key), cleaned,
                       acc.made, 1, acc.s3Calls, acc.errors + 1, NoKey,
                       completed, acc.loaded)
        ELSE IF env = "merge_error" /\ Len(vector_stores) > 1
        THEN IndexCall(owner_id, srd_id, "raise", NoStore, cache, cleaned,
                       acc.made, 1, acc.s3Calls, acc.errors, NoKey, completed,
                       acc.loaded)
        ELSE IndexCall(owner_id, srd_id, "built", merged,
                       UpdateCache(cache, composite_key, merged), cleaned,
                       acc.made, 1, acc.s3Calls, acc.errors,
                       IF full THEN cache[1].key ELSE NoKey, completed,
                       acc.loaded)

----------------------------------------------------------------------------
(* Actions *)

\* the trace of a call, without the state it leaves
Trace(c) == [f \in DOMAIN c \ {"cache", "scratch"} |-> c[f]]

\* history kept in the trace: the key the preceding call hit in the cache
PreviousHit(call) ==
    IF call.op = "get_tenant_index" /\ call.outcome = "hit"
    THEN call.key ELSE NoKey

\* one call of get_tenant_index (_load_and_merge_faiss_indices_for_srd)
GetTenantIndex(owner_id, srd_id, env, faults) ==
    \E c \in {LoadAndMerge(FAISS_INDEX_CACHE, docTable, s3Objects, scratch,
                           owner_id, srd_id, env, faults)} :
        /\ c.outcome = "built" => Len(insertLog) < MaxInserts
        /\ FAISS_INDEX_CACHE' = c.cache
        /\ scratch' = c.scratch
        /\ insertLog' = IF c.outcome = "built"
                        THEN Append(insertLog, c.key) ELSE insertLog
        /\ lastCall' = [Trace(c) EXCEPT
                          !.hitBefore = IF c.outcome = "built"
                                        THEN PreviousHit(lastCall) ELSE NoKey,
                          !.env = IF c.outcome = "hit" THEN "none" ELSE env,
                          !.faults = IF c.outcome = "hit" THEN <<>> ELSE faults]
        /\ UNCHANGED <<ingestTmp, threads>>
        /\ UNCHANGED <<docTable, s3Objects, queryCache, now>>

NoCall == [op |-> "none"]

\* the chunks of a document's index artifact, as the indexer uploads them
ArtifactOf(owner_id, srd_id, document_id) == <<owner_id, srd_id, document_id>>

\* a metadata table and a bucket holding the given documents, all completed
\* and indexed
TableOf(docs) == [k \in {<<CompositeKey(x[1], x[2]), x[3]>> : x \in docs}
                    |-> "completed"]
BucketOf(docs) ==
    LET keys == {VectorObj(x[1], x[2], x[3], e) : x \in docs, e \in IndexParts}
                  \cup {RawObj(x[1], x[2], x[3]) : x \in docs}
    IN [k \in keys |->
          LET x == CHOOSE x \in docs :
                      \/ k = RawObj(x[1], x[2], x[3])
                      \/ \E e \in IndexParts : k = VectorObj(x[1], x[2], x[3], e)
          IN ArtifactOf(x[1], x[2], x[3])]

\* the tenants that query in the cache specification
TenantAt(i) == <<OwnerId(((i - 1) % NumOwners) + 1),
                 SrdId(((i - 1) \div NumOwners) + 1)>>
CacheTenants == {TenantAt(i) : i \in 1..NumTenants}

\* every tenant has its first document completed and indexed
InitCache ==
    /\ FAISS_INDEX_CACHE = <<>>
    /\ docTable = TableOf({<<t[1], t[2], DocId(1)>> : t \in CacheTenants})
    /\ s3Objects = BucketOf({<<t[1], t[2], DocId(1)>> : t \in CacheTenants})
    /\ scratch = {}
    /\ queryCache = <<>>
    /\ now = 0
    /\ insertLog = <<>>
    /\ lastCall = NoCall
    /\ ingestTmp = {}
    /\ threads = <<>>

NoFaults == [d \in DocIds |-> "none"]

NextCache ==
    \E t \in CacheTenants : GetTenantIndex(t[1], t[2], "none", NoFaults)

SpecCache == InitCache /\ [][NextCache]_vars

----------------------------------------------------------------------------
(* Document lifecycle: the ingestor and the delete endpoint *)

Without(f, keys) == [k \in DOMAIN f \ keys |-> f[k]]
With(f, keys, v) == [k \in DOMAIN f \cup keys |-> IF k \in keys THEN v ELSE f[k]]

IngestStages ==
    {"update_error", "model_error", "download_error", "no_documents",
     "no_chunks", "embed_error", "save_error", "ok"}

\* the stages at which the run never enters the try statement
BeforeTry == {"update_error", "model_error"}

\* temp_pdf_path and temp_faiss_index_path
TempPdfPath == <<"/tmp/", "file.pdf">>
TempFaissIndexPath(document_id) == <<"/tmp/">> \o document_id

StatusUpdatesUnchecked(stage, lastUpdate) ==
    IF stage = "update_error" THEN <<>>
    ELSE IF stage = "model_error" \/ lastUpdate = "error" THEN <<"processing">>
    ELSE IF stage \in {"ok", "no_documents", "no_chunks"}
    THEN <<"processing", "completed">>
    ELSE <<"processing", "failed">>

StatusUpdatesAtEnd(stage, lastUpdate) ==
    IF stage \in BeforeTry \/ lastUpdate = "error" THEN <<>>
    ELSE IF stage = "ok" THEN <<"completed">>
    ELSE <<"failed">>

\* the status updates of a run that succeed, in order
StatusUpdates(stage, lastUpdate) ==
    IF stage = "update_error" THEN <<>>
    ELSE IF stage = "model_error" \/ lastUpdate = "error" THEN <<"processing">>
    ELSE IF stage = "ok" THEN <<"processing", "completed">>
    ELSE <<"processing", "failed">>

\* how the run ends: with the metadata, with None, or with an exception
IngestResult(stage, lastUpdate) ==
    IF stage \in BeforeTry THEN [raised |-> stage]
    ELSE IF lastUpdate = "error" THEN [raised |-> "update_error"]
    ELSE IF stage = "ok" THEN [returned |-> "metadata"]
    ELSE IF stage \in {"no_documents", "no_chunks"} THEN [returned |-> "None"]
    ELSE [raised |-> stage]

\* what the run writes under /tmp before it reaches the finally clause
Written(document_id, stage) ==
    (IF stage \in BeforeTry \cup {"download_error"} THEN {} ELSE {TempPdfPath})
      \cup (IF stage \in {"save_error", "ok"}
            THEN {TempFaissIndexPath(document_id)} ELSE {})

\* the paths the finally clause finds and tries to remove
RemovalsSkipped(tmp, document_id, stage) == {}

Removals(tmp, document_id, stage) ==
    IF stage \in BeforeTry THEN {}
    ELSE (tmp \cup Written(document_id, stage))
            \cap {TempPdfPath, TempFaissIndexPath(document_id)}

\* process_s3_object for the raw object of (owner_id, srd_id, document_id).
\* stage: where the run stops ("ok": it reaches the uploads); uploaded: the
\* parts whose S3Client.upload_file succeeds (a failed upload returns False);
\* lastUpdate: whether the update_document_record calls after the first
\* succeed; cleanup: the paths whose removal fails.
ProcessS3Object(owner_id, srd_id, document_id, stage, uploaded, lastUpdate, cleanup) ==
    LET k == <<CompositeKey(owner_id, srd_id), document_id>>
        parts == {<<"VECTOR_STORE_BUCKET", UploadKey(owner_id, srd_id, f)>> :
                    f \in {g \in SavedFiles(document_id) :
                             g[Len(g)] \in uploaded}}
        statuses == StatusUpdates(stage, lastUpdate)
        attempts == Removals(ingestTmp, document_id, stage)
    IN  /\ docTable' = IF statuses = <<>> THEN docTable
                       ELSE With(docTable, {k}, statuses[Len(statuses)])
        /\ s3Objects' = IF stage = "ok"
                        THEN With(s3Objects, parts,
                                  ArtifactOf(owner_id, srd_id, document_id))
                        ELSE s3Objects
        /\ ingestTmp' = (ingestTmp \cup Written(document_id, stage))
                           \ (attempts \ cleanup)
        /\ lastCall' = [op |-> "process_s3_object",
                        document |-> <<owner_id, srd_id, document_id>>,
                        stage |-> stage,
                        lastUpdate |-> lastUpdate,
                        rerun |-> Lookup(docTable, k) = "completed",
                        statuses |-> statuses,
                        result |-> IngestResult(stage, lastUpdate),
                        embedCalls |-> IF stage \in {"embed_error",
                                                      "save_error", "ok"}
                                       THEN 1 ELSE 0,
                        uploadCalls |-> IF stage = "ok"
                                        THEN Cardinality(IndexParts) ELSE 0,
                        uploaded |-> uploaded,
                        removals |-> attempts,
                        removalErrors |-> attempts \cap cleanup]
        /\ UNCHANGED threads
        /\ UNCHANGED <<FAISS_INDEX_CACHE, scratch, queryCache, now, insertLog>>

\* what S3Client.delete_object can fail to delete: the raw document and the
\* parts of the index artifact
DeleteTargets == {"raw"} \cup IndexParts

\* the status of the response: 404 without a record, 500 when the record
\* could not be deleted; S3Client.delete_object returns False on an error
\* and the endpoint does not read what it returns
DeleteStatus(found, kept, dbFail) ==
    IF ~found THEN 404 ELSE IF dbFail THEN 500 ELSE 204

\* the delete endpoint delete_document_record(srd_id, document_id) of the
\* owner. kept: the objects whose S3Client.delete_object fails (it returns
\* False); dbFail: DatabaseService.delete_document_record raises.
DeleteDocumentRecord(owner_id, srd_id, document_id, kept, dbFail) ==
    LET k == <<CompositeKey(owner_id, srd_id), document_id>>
        found == k \in DOMAIN docTable
        objs == (IF "raw" \in kept THEN {}
                 ELSE {RawObj(owner_id, srd_id, document_id)})
                   \cup {<<"VECTOR_STORE_BUCKET",
                           DeleteKey(owner_id, srd_id, document_id, e)>> :
                            e \in IndexParts \ kept}
    IN  /\ IF ~found
           THEN UNCHANGED <<docTable, s3Objects>>
           ELSE /\ s3Objects' = Without(s3Objects, objs)
                /\ docTable' = IF dbFail THEN docTable
                               ELSE Without(docTable, {k})
        /\ lastCall' = [op |-> "delete_document_record",
                        document |-> <<owner_id, srd_id, document_id>>,
                        found |-> found, kept |-> kept, dbFail |-> dbFail,
                        deleteCalls |-> IF found THEN Cardinality(DeleteTargets)
                                        ELSE 0,
                        status_code |-> DeleteStatus(found, kept, dbFail)]
        /\ UNCHANGED <<ingestTmp, threads>>
        /\ UNCHANGED <<FAISS_INDEX_CACHE, scratch, queryCache, now, insertLog>>

\* a cold start: a new process, with an empty cache and an empty /tmp
ColdStart ==
    /\ FAISS_INDEX_CACHE' = <<>>
    /\ scratch' = {}
    /\ insertLog' = <<>>
    /\ lastCall' = [op |-> "cold_start"]
    /\ UNCHANGED <<ingestTmp, threads>>
    /\ UNCHANGED <<docTable, s3Objects, queryCache, now>>

----------------------------------------------------------------------------
(* The index engine with documents that are ingested and deleted *)

IndexTenant == TenantAt(1)

IndexDocs == {<<IndexTenant[1], IndexTenant[2], d>> : d \in DocIds}

\* every document of the tenant is registered (pending) and uploaded
InitIndex ==
    /\ FAISS_INDEX_CACHE = <<>>
    /\ docTable = [k \in {<<CompositeKey(x[1], x[2]), x[3]>> : x \in IndexDocs}
                     |-> "pending"]
    /\ s3Objects = [k \in {RawObj(x[1], x[2], x[3]) : x \in IndexDocs}
                      |-> "pdf"]
    /\ scratch = {}
    /\ queryCache = <<>>
    /\ now = 0
    /\ insertLog = <<>>
    /\ lastCall = NoCall
    /\ ingestTmp = {}
    /\ threads = <<>>

\* at most one document fails in a call
OneFault ==
    {f \in [DocIds -> LoadFaults] :
        Cardinality({d \in DocIds : f[d] # "none"}) <= 1}

NextIndex ==
    \/ \E env \in EnvFaults, f \in OneFault :
          /\ env # "none" => f = NoFaults
          /\ GetTenantIndex(IndexTenant[1], IndexTenant[2], env, f)
    \/ \E d \in DocIds, stage \in {"update_error", "embed_error", "ok"},
          up \in {{}, IndexParts}, lastUpdate \in {"ok", "error"} :
          /\ <<CompositeKey(IndexTenant[1], IndexTenant[2]), d>>
                \in DOMAIN docTable
          /\ stage # "ok" => up = {}
          /\ ProcessS3Object(IndexTenant[1], IndexTenant[2], d, stage, up,
                             lastUpdate, {})
    \/ \E d \in DocIds, kept \in {{}, IndexParts} :
          DeleteDocumentRecord(IndexTenant[1], IndexTenant[2], d, kept, FALSE)
    \/ ColdStart

SpecIndex == InitIndex /\ [][NextIndex]_vars

----------------------------------------------------------------------------
(* The ingestor alone, with uploads and removals that fail *)

\* a new container of the ingestor, with an empty /tmp
IngestColdStart ==
    /\ ingestTmp' = {}
    /\ lastCall' = [op |-> "ingest_cold_start"]
    /\ UNCHANGED <<FAISS_INDEX_CACHE, docTable, s3Objects, scratch, queryCache,
                   now, insertLog, threads>>

NextIngest ==
    \/ \E d \in {DocId(1), DocId(NumDocs)}, stage \in IngestStages,
          up \in SUBSET IndexParts, lastUpdate \in {"ok", "error"} :
       \E cleanup \in SUBSET {TempPdfPath, TempFaissIndexPath(d)} :
          /\ stage # "ok" => up = {}
          /\ Cardinality(up) = 1 => d = DocId(1) /\ cleanup = {}
          /\ lastUpdate = "error"
               => cleanup = {} /\ stage \in {"ok", "no_documents", "embed_error"}
          /\ cleanup # {} => stage \in {"ok", "no_chunks", "save_error"}
          /\ ProcessS3Object(IndexTenant[1], IndexTenant[2], d, stage, up,
                             lastUpdate, cleanup)
    \/ GetTenantIndex(IndexTenant[1], IndexTenant[2], "none", NoFaults)
    \/ IngestColdStart

SpecIngest == InitIndex /\ [][NextIngest]_vars

----------------------------------------------------------------------------
(* A cached composite while another document of its key is ingested *)

LateDoc == DocId(NumDocs)

\* every tenant has its first document completed and indexed; one more
\* document of the first tenant is registered and uploaded, not yet indexed
InitStale ==
    /\ FAISS_INDEX_CACHE = <<>>
    /\ docTable = [k \in DOMAIN TableOf({<<t[1], t[2], DocId(1)>> :
                                            t \in CacheTenants})
                          \cup {<<CompositeKey(IndexTenant[1], IndexTenant[2]),
                                  LateDoc>>}
                     |-> IF k[2] = LateDoc THEN "pending" ELSE "completed"]
    /\ s3Objects = [k \in DOMAIN BucketOf({<<t[1], t[2], DocId(1)>> :
                                             t \in CacheTenants})
                           \cup {RawObj(IndexTenant[1], IndexTenant[2],
                                         LateDoc)}
                      |-> IF k = RawObj(IndexTenant[1], IndexTenant[2], LateDoc)
                          THEN "pdf"
                          ELSE BucketOf({<<t[1], t[2], DocId(1)>> :
                                           t \in CacheTenants})[k]]
    /\ scratch = {}
    /\ queryCache = <<>>
    /\ now = 0
    /\ insertLog = <<>>
    /\ lastCall = NoCall
    /\ ingestTmp = {}
    /\ threads = <<>>

\* a tenant without a document
NoDocsTenant == TenantAt(NumTenants + 1)

\* the first tenant queries at any time, also while its artifacts do not
\* download; the others query in turn, each while its composite is not
\* cached; the tenant without documents queries at any time
NextStale ==
    \/ GetTenantIndex(IndexTenant[1], IndexTenant[2], "none", NoFaults)
    \/ \E i \in 2..(MAX_CACHE_SIZE + 1) :
          /\ ~CacheCheck(FAISS_INDEX_CACHE,
                         CompositeKey(TenantAt(i)[1], TenantAt(i)[2]))
          /\ i > 2 => CacheCheck(FAISS_INDEX_CACHE,
                                 CompositeKey(TenantAt(i - 1)[1],
                                              TenantAt(i - 1)[2]))
          /\ GetTenantIndex(TenantAt(i)[1], TenantAt(i)[2], "none", NoFaults)
    \/ \E env \in {"none", "db_error"} :
          GetTenantIndex(NoDocsTenant[1], NoDocsTenant[2], env, NoFaults)
    \/ /\ ~CacheCheck(FAISS_INDEX_CACHE,
                       CompositeKey(IndexTenant[1], IndexTenant[2]))
       /\ GetTenantIndex(IndexTenant[1], IndexTenant[2], "none",
                         [d \in DocIds |-> "s3_client_error"])
    \/ ProcessS3Object(IndexTenant[1], IndexTenant[2], LateDoc, "ok",
                       IndexParts, "ok", {})
    \/ ColdStart

SpecStale == InitStale /\ [][NextStale]_vars


----------------------------------------------------------------------------
(* The query orchestrator and the answer cache *)

\* time.time() is counted in ticks, TicksPerSecond ticks to a second
TicksPerSecond == 2
TtlTicks == CACHE_TTL_SECONDS * TicksPerSecond

\* str(n) of a natural number, as its decimal digits
RECURSIVE IntToStr(_)
IntToStr(n) ==
    IF n < 10 THEN <<Digits[n + 1]>>
    ELSE Append(IntToStr(n \div 10), Digits[(n % 10) + 1])

DigitValue(c) == (CHOOSE i \in 1..10 : Digits[i] = c) - 1

\* int(s) of a string of decimal digits
RECURSIVE StrToInt(_)
StrToInt(str) ==
    IF Len(str) = 1 THEN DigitValue(str[1])
    ELSE 10 * StrToInt(SubSeq(str, 1, Len(str) - 1)) + DigitValue(str[Len(str)])

BoolStr(b) == IF b THEN <<"T", "r", "u", "e">> ELSE <<"F", "a", "l", "s", "e">>

\* cache_key_string = f"{composite_key}-{query_text}-{invoke_generative_llm}"
CacheKeyString(owner_id, srd_id, query_text, invoke_generative_llm) ==
    CompositeKey(owner_id, srd_id) \o <<"-">> \o query_text \o <<"-">>
        \o BoolStr(invoke_generative_llm)

\* hashlib.md5(...).hexdigest(), taken to be free of collisions
Md5(str) == <<"md5", str>>

QueryHash(owner_id, srd_id, query_text, invoke_generative_llm) ==
    Md5(CacheKeyString(owner_id, srd_id, query_text, invoke_generative_llm))

NoItem == [query_hash |-> <<>>]

GetItemMiss(table, query_hash) == NoItem

\* DynamoDb.get_item: the item of the key, or None
GetItem(table, query_hash) ==
    IF query_hash \in DOMAIN table THEN table[query_hash] ELSE NoItem

\* DynamoDb.put_item: the item replaces the one of the same key
PutItem(table, item) ==
    [h \in DOMAIN table \cup {item.query_hash} |->
        IF h = item.query_hash THEN item ELSE table[h]]

\* ttl_value = int(time.time() + CACHE_TTL_SECONDS), in seconds
TtlValue(t) == (t + TtlTicks) \div TicksPerSecond

CacheValidAtExpiry(response, t) ==
    response # NoItem /\ StrToInt(response.ttl) * TicksPerSecond >= t

\* response and int(response.get("ttl", 0)) > time.time()
CacheValid(response, t) ==
    response # NoItem /\ StrToInt(response.ttl) * TicksPerSecond > t

\* the arguments of one query
Request(query_text, owner_id, srd_id, invoke, conversational, config, k) ==
    [query_text |-> query_text, owner_id |-> owner_id, srd_id |-> srd_id,
     invoke_generative_llm |-> invoke, use_conversational_style |-> conversational,
     generation_config_payload |-> config, number_of_documents |-> k]

RequestHashAll(req) ==
    Md5(CacheKeyString(req.owner_id, req.srd_id, req.query_text,
                       req.invoke_generative_llm)
          \o <<"-">> \o BoolStr(req.use_conversational_style))

\* query_hash of a request: of its owner, collection, text and flag alone
RequestHash(req) ==
    QueryHash(req.owner_id, req.srd_id, req.query_text,
              req.invoke_generative_llm)

\* the item that caches an answer generated at time t for the request
CacheItem(req, answer, t) ==
    [query_hash |-> RequestHash(req),
     answer |-> answer, owner_id |-> req.owner_id, srd_id |-> req.srd_id,
     query_text |-> req.query_text, timestamp |-> t,
     ttl |-> IntToStr(TtlValue(t)),
     generation_config_used |-> req.generation_config_payload,
     was_conversational |-> req.use_conversational_style]

\* what can go wrong in a query: in the cache lookup, in the index load, in
\* the retriever, in the model configuration, in the cache write
LookupFaults == {"get_error", "get_bad_ttl", "get_no_ttl", "get_no_answer"}
QueryFaults ==
    {"none", "embedding_error", "retriever_error", "retriever_invoke_error",
     "llm_dynamic_error", "llm_both_error", "put_client_error",
     "put_other_error"} \cup LookupFaults
GenAnswers == {"a1", "a2"}
GenOutcomes == GenAnswers \cup {"no_result", "client_error", "error"}

NoAnswerGenerated == "No answer generated."
NoInformationFound ==
    "No specific information found to answer your query based on retrieval."

Answer(answer, source) == [answer |-> answer, source |-> source]
Failure(message) == [error |-> message]

\* the error messages: the words of the text and the values formatted in
Message(words, args) == [text |-> words, args |-> args]
CouldNotLoad(composite_key) ==
    Message(<<"Could", "not", "load", "SRD", "data", "for">>, <<composite_key>>)
FailedToPrepare ==
    Message(<<"Failed", "to", "prepare", "for", "information", "retrieval.">>,
            <<>>)
NotConfigured ==
    Message(<<"Internal", "server", "error:", "Generative", "LLM", "component",
              "could", "not", "be", "configured.">>, <<>>)
ErrorCommunicating ==
    Message(<<"Error", "communicating", "with", "the", "AI", "model.",
              "Please", "try", "again.">>, <<>>)
FailedToGenerate ==
    Message(<<"Failed", "to", "generate", "an", "answer", "using", "the",
              "RAG", "chain.">>, <<>>)

\* an exception that leaves get_answer_from_rag
Raised == [raised |-> TRUE]

IsDigits(str) ==
    /\ Len(str) >= 1
    /\ \A i \in 1..Len(str) : \E j \in 1..10 : Digits[j] = str[i]

\* what get_item gives when the stored item is not one this code wrote
Malformed(query_hash, fault, t) ==
    IF fault = "get_bad_ttl"
    THEN [query_hash |-> query_hash, answer |-> "a1", ttl |-> <<"x">>]
    ELSE IF fault = "get_no_ttl"
    THEN [query_hash |-> query_hash, answer |-> "a1"]
    ELSE [query_hash |-> query_hash, ttl |-> IntToStr(TtlValue(t))]

\* the try block of the cache lookup: a hit with the item, a miss, or an
\* error raised by get_item, by int() or by response["answer"]
CacheLookup(table, query_hash, fault, t) ==
    LET response == IF fault \in LookupFaults
                    THEN Malformed(query_hash, fault, t)
                    ELSE GetItem(table, query_hash)
    IN  IF fault = "get_error" THEN [kind |-> "error", item |-> NoItem]
        ELSE IF response = NoItem \/ "ttl" \notin DOMAIN response
        THEN [kind |-> "miss", item |-> NoItem]
        ELSE IF ~IsDigits(response.ttl)
        THEN [kind |-> "error", item |-> NoItem]
        ELSE IF "answer" \notin DOMAIN response
        THEN [kind |-> "error", item |-> NoItem]
        ELSE IF CacheValid(response, t)
        THEN [kind |-> "hit", item |-> response]
        ELSE [kind |-> "miss", item |-> response]

LookupUnhandled(kind) == kind

\* the two except clauses of the lookup: log a warning and go on
LookupHandled(kind) == IF kind = "error" THEN "miss" ELSE kind

UsesCacheAlways(invoke) == TRUE

\* the lookup runs only if invoke_generative_llm
UsesCache(invoke) == invoke

ShouldCacheAlways(answer) == TRUE

\* the answer is stored unless it is the default of result.get
ShouldCache(answer) == answer # NoAnswerGenerated

\* get_llm_instance: the instance with the request's configuration, the
\* default instance when that fails, the exception when the default fails too
GetLlmInstance(fault) ==
    IF fault = "llm_both_error" THEN [instance |-> "raise", attempts |-> 2]
    ELSE IF fault = "llm_dynamic_error"
    THEN [instance |-> "default", attempts |-> 2]
    ELSE [instance |-> "dynamic", attempts |-> 1]

Min(a, b) == IF a < b THEN a ELSE b

\* retriever.invoke: the first k chunks of the store in the order rank, the
\* order of similarity to the query
Retrieve(store, rank, k) ==
    LET found == SelectSeq(rank, LAMBDA c : \E i \in 1..Len(store) : store[i] = c)
    IN  SubSeq(found, 1, Min(k, Len(found)))

Separator == <<"\n\n---\n\n">>

RECURSIVE JoinReversed(_)
JoinReversed(docs) ==
    IF Len(docs) <= 1 THEN docs
    ELSE JoinReversed(Tail(docs)) \o <<Separator, Head(docs)>>

\* "\n\n---\n\n".join(doc.page_content for doc in docs)
RECURSIVE Join(_)
Join(docs) ==
    IF Len(docs) <= 1 THEN docs
    ELSE <<Head(docs), Separator>> \o Join(Tail(docs))

\* the answer of a retrieval-only query
RetrievalAnswer(query_text, docs) ==
    IF docs = <<>> THEN Answer(NoInformationFound, "retrieval_only")
    ELSE Answer([header |-> <<"Based on the retrieved SRD content for your query",
                              query_text>>,
                 body |-> Join(docs)], "retrieval_only")

\* the trace record of one call of get_answer_from_rag
QueryCall(o, s, q, invoke, result, lookup, gets, loads, retr, cfgs, llm, puts) ==
    [op |-> "get_answer_from_rag", owner |-> o, srd |-> s, query_text |-> q,
     invoke |-> invoke, query_hash |-> QueryHash(o, s, q, invoke),
     result |-> result, lookup |-> lookup, getCalls |-> gets,
     indexLoads |-> loads, retrievals |-> retr, llmConfigs |-> cfgs,
     llmCalls |-> llm, putCalls |-> puts, fault |-> "none",
     docs |-> <<>>, instance |-> "none", attempts |-> 0,
     retrieverBuilds |-> 0, generation |-> "none",
     chainQuery |-> <<>>, searchQuery |-> <<>>]

FinalQueryTextRaw(query_text, invoke, conversational) == query_text

\* final_query_text: f"User: {query_text}\nBot:" if invoke_generative_llm and
\* use_conversational_style, else query_text
FinalQueryText(query_text, invoke, conversational) ==
    IF invoke /\ conversational
    THEN <<"User: ">> \o query_text \o <<"\nBot:">>
    ELSE query_text

ChainErrorGeneric(gen) == Failure(FailedToGenerate)

\* the two except clauses around qa_chain.invoke: a botocore ClientError, and
\* any other exception
ChainError(gen) ==
    IF gen = "client_error" THEN Failure(ErrorCommunicating)
    ELSE Failure(FailedToGenerate)

RetrieverUnhandled(raised) == IF raised THEN "raise" ELSE "ok"

\* the except clause around vector_store.as_retriever: any exception is
\* logged and becomes the error result
RetrieverHandled(raised) == IF raised THEN "failure" ELSE "ok"

\* get_answer_from_rag from the index load on (steps 2 and later), given the
\* outcome c of the index load: the answer cache it leaves and the call's
\* trace, which extends base
Generate(c, qcache, t, req, fault, gen, rank, base) ==
    LET q == req.query_text
        loaded == [base EXCEPT !.indexLoads = 1]
        docs == Retrieve(c.store, rank, req.number_of_documents)
        retriever == RetrieverHandled(fault = "retriever_error")
        prepared == [loaded EXCEPT !.retrieverBuilds = 1]
        llm == GetLlmInstance(fault)
        config == [prepared EXCEPT !.llmConfigs = 1, !.instance = llm.instance,
                                 !.attempts = llm.attempts]
        final_query_text == FinalQueryText(q, req.invoke_generative_llm,
                                           req.use_conversational_style)
        chain == [config EXCEPT !.retrievals = 1,
                                !.chainQuery = final_query_text]
        invoked == [chain EXCEPT !.llmCalls = 1, !.generation = gen]
        answer == IF gen = "no_result" THEN NoAnswerGenerated ELSE gen
        put == [invoked EXCEPT !.putCalls = 1]
    IN  IF c.outcome = "raise"
        THEN [qcache |-> qcache, call |-> [loaded EXCEPT !.result = Raised]]
        ELSE IF c.outcome = "none"
        THEN [qcache |-> qcache,
              call |-> [loaded EXCEPT !.result = Failure(CouldNotLoad(c.key))]]
        ELSE IF retriever = "raise"
        THEN [qcache |-> qcache, call |-> [prepared EXCEPT !.result = Raised]]
        ELSE IF retriever = "failure"
        THEN [qcache |-> qcache,
              call |-> [prepared EXCEPT !.result = Failure(FailedToPrepare)]]
        ELSE IF ~req.invoke_generative_llm /\ fault = "retriever_invoke_error"
        THEN [qcache |-> qcache,
              call |-> [prepared EXCEPT !.result = Raised, !.retrievals = 1,
                                        !.searchQuery = q]]
        ELSE IF ~req.invoke_generative_llm
        THEN [qcache |-> qcache,
              call |-> [prepared EXCEPT !.result = RetrievalAnswer(q, docs),
                                        !.retrievals = 1, !.docs = docs,
                                        !.searchQuery = q]]
        ELSE IF llm.instance = "raise"
        THEN [qcache |-> qcache, call |-> [config EXCEPT !.result = Raised]]
        ELSE IF llm.instance = "none"
        THEN [qcache |-> qcache,
              call |-> [config EXCEPT !.result = Failure(NotConfigured)]]
        ELSE IF fault = "retriever_invoke_error"
        THEN [qcache |-> qcache,
              call |-> [chain EXCEPT !.result = Failure(FailedToGenerate)]]
        ELSE IF gen \in {"client_error", "error"}
        THEN [qcache |-> qcache,
              call |-> [invoked EXCEPT !.result = ChainError(gen)]]
        ELSE IF ~ShouldCache(answer)
        THEN [qcache |-> qcache,
              call |-> [invoked EXCEPT !.result = Answer(answer, "bedrock_llm")]]
        ELSE IF fault = "put_client_error"
        THEN [qcache |-> qcache,
              call |-> [put EXCEPT !.result = Answer(answer, "bedrock_llm")]]
        ELSE IF fault = "put_other_error"
        THEN [qcache |-> qcache,
              call |-> [put EXCEPT !.result = Failure(FailedToGenerate)]]
        ELSE [qcache |-> PutItem(qcache, CacheItem(req, answer, t)),
              call |-> [put EXCEPT !.result = Answer(answer, "bedrock_llm")]]

\* get_answer_from_rag in the current state: the call's trace and the index
\* cache, scratch area and answer cache it leaves
RagStep(req, fault, gen, rank) ==
    LET o == req.owner_id
        s == req.srd_id
        invoke == req.invoke_generative_llm
        uses == UsesCache(invoke)
        look == IF uses
                THEN CacheLookup(queryCache, RequestHash(req), fault, now)
                ELSE [kind |-> "miss", item |-> NoItem]
        kind == LookupHandled(look.kind)
        base == [QueryCall(o, s, req.query_text, invoke, Raised, look.item,
                           IF uses THEN 1 ELSE 0, 0, 0, 0, 0, 0)
                   EXCEPT !.fault = IF kind = "hit" THEN "none" ELSE fault]
        c == LoadAndMerge(FAISS_INDEX_CACHE, docTable, s3Objects, scratch, o, s,
                          IF fault = "embedding_error" THEN fault ELSE "none",
                          NoFaults)
        g == Generate(c, queryCache, now, req, fault, gen, rank, base)
    IN  IF kind = "error"
        THEN [call |-> base, cache |-> FAISS_INDEX_CACHE, scratch |-> scratch,
              qcache |-> queryCache, built |-> FALSE]
        ELSE IF kind = "hit"
        THEN [call |-> [base EXCEPT
                          !.result = Answer(look.item.answer, "cache")],
              cache |-> FAISS_INDEX_CACHE, scratch |-> scratch,
              qcache |-> queryCache, built |-> FALSE]
        ELSE [call |-> g.call, cache |-> c.cache, scratch |-> c.scratch,
              qcache |-> g.qcache, built |-> c.outcome = "built"]

\* one call of get_answer_from_rag at the current time
GetAnswerFromRag(req, fault, gen, rank) ==
    \E r \in {RagStep(req, fault, gen, rank)} :
        /\ r.built => Len(insertLog) < MaxInserts
        /\ FAISS_INDEX_CACHE' = r.cache
        /\ scratch' = r.scratch
        /\ insertLog' = IF r.built
                        THEN Append(insertLog,
                                    CompositeKey(req.owner_id, req.srd_id))
                        ELSE insertLog
        /\ queryCache' = r.qcache
        /\ lastCall' = r.call
        /\ UNCHANGED <<ingestTmp, threads>>
        /\ UNCHANGED <<docTable, s3Objects, now>>

\* time passes
AdvanceClock(dt) ==
    /\ now' = now + dt
    /\ lastCall' = [op |-> "advance_clock"]
    /\ UNCHANGED <<ingestTmp, threads>>
    /\ UNCHANGED <<FAISS_INDEX_CACHE, docTable, s3Objects, scratch, queryCache,
                   insertLog>>

NumQueries == 1
MaxTicks == 2
MaxJumps == 1

QueryText(i) == <<"q", Digits[i + 1]>>
QueryTexts == {QueryText(i) : i \in 1..NumQueries}

\* the first tenant has documents, the second has none
QueryTenants == {TenantAt(1), TenantAt(2)}

\* the clock moves by a tick, or by a second less than the time to live
LongJump == (CACHE_TTL_SECONDS - 1) * TicksPerSecond

InitQuery ==
    /\ FAISS_INDEX_CACHE = <<>>
    /\ docTable = TableOf(IndexDocs)
    /\ s3Objects = BucketOf(IndexDocs)
    /\ scratch = {}
    /\ queryCache = <<>>
    /\ now = 0
    /\ insertLog = <<>>
    /\ lastCall = NoCall
    /\ ingestTmp = {}
    /\ threads = <<>>

\* number_of_documents: Optional[int] = 4
DEFAULT_NUMBER_OF_DOCUMENTS == 4

\* the orders in which a search can return chunks of the first tenant
Rankings ==
    LET chunks == {ArtifactOf(IndexTenant[1], IndexTenant[2], DocId(i)) :
                      i \in {1, NumDocs}}
    IN  {r \in UNION {[1..n -> chunks] : n \in 0..Cardinality(chunks)} :
            \A i, j \in 1..Len(r) : i # j => r[i] # r[j]}

RetrievalFaults ==
    {"none", "embedding_error", "retriever_error", "retriever_invoke_error"}

NextQuery ==
    \/ \E t \in QueryTenants, q \in QueryTexts, fault \in QueryFaults,
          gen \in GenOutcomes :
          /\ fault # "none" => gen = "a1"
          /\ t # TenantAt(1)
               => gen = "a1" /\ fault \in {"none", "retriever_error"}
          /\ q # QueryText(1) => gen = "a1" /\ fault = "none" /\ t = TenantAt(1)
          /\ GetAnswerFromRag(Request(q, t[1], t[2], TRUE, FALSE, "default",
                                      DEFAULT_NUMBER_OF_DOCUMENTS),
                              fault, gen, <<>>)
    \/ \E t \in QueryTenants, q \in QueryTexts, fault \in RetrievalFaults,
          rank \in Rankings, k \in {1, DEFAULT_NUMBER_OF_DOCUMENTS} :
          /\ fault # "none" => rank = <<>> /\ k = 1
          /\ t # TenantAt(1)
               => /\ rank = <<>> /\ k = 1
                  /\ fault \in {"none", "retriever_error"}
          /\ q # QueryText(1) => /\ rank = <<>> /\ fault = "none" /\ k = 1
                                  /\ t = TenantAt(1)
          /\ GetAnswerFromRag(Request(q, t[1], t[2], FALSE, FALSE, "default", k),
                              fault, "a1", rank)
    \/ /\ now % LongJump < MaxTicks
       /\ AdvanceClock(1)
    \/ /\ now + LongJump <= MaxJumps * LongJump + MaxTicks
       /\ AdvanceClock(LongJump)
    \/ ColdStart

SpecQuery == InitQuery /\ [][NextQuery]_vars

----------------------------------------------------------------------------
(* Deleting documents whose objects may resist deletion *)

\* documents are deleted, indexed again and queried; the tenant's documents
\* start completed and indexed
NextDelete ==
    \/ \E d \in DocIds, kept \in SUBSET DeleteTargets, dbFail \in BOOLEAN :
          /\ dbFail => kept = {}
          /\ DeleteDocumentRecord(IndexTenant[1], IndexTenant[2], d, kept,
                                  dbFail)
    \/ GetTenantIndex(IndexTenant[1], IndexTenant[2], "none", NoFaults)
    \/ ColdStart

SpecDelete == InitQuery /\ [][NextDelete]_vars

----------------------------------------------------------------------------
(* Tenants whose identifiers contain the separators of the keys *)

\* owners and collections with documents, as <<owner_id, srd_id>>
IsoTenants ==
    {<<<<"u">>, <<"s">>>>,
     <<<<"u">>, <<"s", "-", "q">>>>,
     <<<<"u", "#", "s">>, <<"s">>>>}

\* an owner and a collection without any document
IsoStranger == <<<<"u">>, <<"s", "#", "s">>>>

\* the requests, as <<owner_id, srd_id, query_text>>
IsoRequests ==
    {<<<<"u">>, <<"s">>, <<"q">>>>,
     <<<<"u">>, <<"s">>, <<"q", "-", "q">>>>,
     <<<<"u">>, <<"s", "-", "q">>, <<"q">>>>,
     <<<<"u", "#", "s">>, <<"s">>, <<"q">>>>,
     <<IsoStranger[1], IsoStranger[2], <<"q">>>>}

\* every tenant with documents has its first document completed and indexed
InitIsolation ==
    /\ FAISS_INDEX_CACHE = <<>>
    /\ docTable = TableOf({<<t[1], t[2], DocId(1)>> : t \in IsoTenants})
    /\ s3Objects = BucketOf({<<t[1], t[2], DocId(1)>> : t \in IsoTenants})
    /\ scratch = {}
    /\ queryCache = <<>>
    /\ now = 0
    /\ insertLog = <<>>
    /\ lastCall = NoCall
    /\ ingestTmp = {}
    /\ threads = <<>>

NextIsolation ==
    \/ \E r \in IsoRequests, invoke \in BOOLEAN :
          GetAnswerFromRag(Request(r[3], r[1], r[2], invoke, FALSE, "default",
                                   DEFAULT_NUMBER_OF_DOCUMENTS),
                           "none", "a1", <<>>)
    \/ \E t \in IsoTenants \cup {IsoStranger} :
          GetTenantIndex(t[1], t[2], "none", NoFaults)
    \/ ColdStart

SpecIsolation == InitIsolation /\ [][NextIsolation]_vars

----------------------------------------------------------------------------
(* The query endpoint *)

RECURSIVE Strip(_)
\* str.strip(), for blanks
Strip(str) ==
    IF str = <<>> THEN str
    ELSE IF Head(str) = " " THEN Strip(Tail(str))
    ELSE IF str[Len(str)] = " " THEN Strip(SubSeq(str, 1, Len(str) - 1))
    ELSE str

\* needle in text: the words of needle occur in a row in the message
Contains(needle, message) ==
    \E i \in 1..(Len(message.text) - Len(needle) + 1) :
        SubSeq(message.text, i, i + Len(needle) - 1) = needle

\* the status query_endpoint gives to the content get_answer_from_rag returned
StatusCode(content) ==
    IF "error" \notin DOMAIN content THEN 200
    ELSE IF Contains(<<"Could", "not", "load", "SRD", "data">>, content.error)
    THEN 404
    ELSE IF Contains(<<"components", "not", "ready">>, content.error) THEN 503
    ELSE 500

Unauthorized ==
    Failure(Message(<<"Invalid", "or", "missing", "authentication", "token">>,
                    <<>>))
InternalServerError ==
    Failure(Message(<<"Internal", "server", "error:">>, <<"exception">>))

\* the body of a POST /query
Body(query_text, srd_id, invoke, conversational, config, k) ==
    [query_text |-> query_text, srd_id |-> srd_id,
     invoke_generative_llm |-> invoke, use_conversation_style |-> conversational,
     generation_config |-> config, number_of_documents |-> k]

\* query_endpoint for a request of owner_id (NoKey: no valid token)
QueryEndpoint(owner_id, body, fault, gen, rank) ==
    LET req == Request(Strip(body.query_text), owner_id, Strip(body.srd_id),
                       body.invoke_generative_llm, body.use_conversation_style,
                       body.generation_config, body.number_of_documents)
    IN  \E r \in {IF owner_id = NoKey THEN [call |-> NoCall]
                   ELSE RagStep(req, fault, gen, rank)} :
        \E content \in {IF owner_id = NoKey THEN Unauthorized
                         ELSE IF r.call.result = Raised
                         THEN InternalServerError ELSE r.call.result} :
        IF owner_id = NoKey
        THEN /\ lastCall' = [op |-> "query_endpoint", status_code |-> 401,
                             content |-> Unauthorized, request |-> body,
                             rag |-> NoCall]
             /\ UNCHANGED <<ingestTmp, threads>>
             /\ UNCHANGED <<FAISS_INDEX_CACHE, docTable, s3Objects, scratch,
                            queryCache, now, insertLog>>
        ELSE /\ r.built => Len(insertLog) < MaxInserts
             /\ FAISS_INDEX_CACHE' = r.cache
             /\ scratch' = r.scratch
             /\ insertLog' = IF r.built
                             THEN Append(insertLog,
                                         CompositeKey(owner_id, req.srd_id))
                             ELSE insertLog
             /\ queryCache' = r.qcache
             /\ lastCall' = [op |-> "query_endpoint",
                             status_code |-> IF r.call.result = Raised THEN 500
                                             ELSE StatusCode(content),
                             content |-> content, request |-> body,
                             rag |-> r.call]
             /\ UNCHANGED <<ingestTmp, threads>>
             /\ UNCHANGED <<docTable, s3Objects, now>>

\* the texts and collection names clients send, some with blanks around
Padded(strs) == strs \cup {Append(x, " ") : x \in strs}

EndpointFaults ==
    {"none", "embedding_error", "retriever_error", "llm_both_error",
     "put_other_error"}

\* the settings of a request that are not part of its cache key
Settings ==
    {<<FALSE, "default", DEFAULT_NUMBER_OF_DOCUMENTS>>,
     <<TRUE, "default", DEFAULT_NUMBER_OF_DOCUMENTS>>,
     <<FALSE, "hot", DEFAULT_NUMBER_OF_DOCUMENTS>>,
     <<FALSE, "default", 1>>, <<TRUE, "hot", 1>>}

NextEndpoint ==
    \/ \E invoke \in BOOLEAN, x \in Settings, gen \in GenAnswers :
          QueryEndpoint(IndexTenant[1],
                        Body(QueryText(1), IndexTenant[2], invoke, x[1], x[2],
                             x[3]),
                        "none", gen, <<>>)
    \/ \E o \in {t[1] : t \in QueryTenants} \cup {NoKey},
          q \in Padded({QueryText(1)}), sr \in Padded({IndexTenant[2]}),
          fault \in EndpointFaults, gen \in {"a1", "client_error"} :
          /\ fault # "none" => gen = "a1" /\ o = IndexTenant[1]
          /\ fault # "none" \/ gen # "a1" => Len(q) = Len(QueryText(1))
          /\ Len(sr) > Len(IndexTenant[2]) => Len(q) = Len(QueryText(1))
          /\ QueryEndpoint(o, Body(q, sr, TRUE, FALSE, "default",
                                   DEFAULT_NUMBER_OF_DOCUMENTS),
                           fault, gen, <<>>)
    \/ /\ now + LongJump <= (MaxJumps + 1) * LongJump
       /\ AdvanceClock(LongJump)
    \/ ColdStart

SpecEndpoint == InitQuery /\ [][NextEndpoint]_vars

----------------------------------------------------------------------------
(* Model configuration of a request *)

\* an optional field: None, or the value it is set to
None == <<>>
Some(value) == <<value>>

\* a GenerationConfig of the request body
GenerationConfig(temperature, top_p, max_token_count, stop_sequences) ==
    [temperature |-> temperature, top_p |-> top_p,
     max_token_count |-> max_token_count, stop_sequences |-> stop_sequences]

\* generation_config.model_dump(mode="json"): the fields under their names,
\* unset ones included; {} when the body has no generation_config
ModelDump(generation_config) ==
    IF generation_config = None THEN <<>> ELSE generation_config[1]

\* dict.get(key)
DictGet(dict, key) == IF key \in DOMAIN dict THEN dict[key] ELSE None

\* value if value is not None else default
OrDefault(value, default) == IF value # None THEN value[1] ELSE default

\* effective_model_kwargs of get_llm_instance
EffectiveModelKwargs(generation_config) ==
    [temperature |-> OrDefault(DictGet(generation_config, "temperature"), "0.1"),
     top_p |-> OrDefault(DictGet(generation_config, "top_p"), "1.0"),
     max_tokens |-> OrDefault(DictGet(generation_config, "max_tokens"), "1024"),
     stop_sequences |->
         OrDefault(DictGet(generation_config, "stop_sequences"), <<>>)]

\* model_kwargs of DEFAULT_LLM_INSTANCE
DefaultModelKwargs == [temperature |-> "0.1", maxTokenCount |-> "1024"]

\* the model_kwargs of the instance get_llm_instance returns
ModelKwargs(generation_config, fault) ==
    LET llm == GetLlmInstance(fault)
    IN  IF llm.instance = "dynamic" THEN EffectiveModelKwargs(generation_config)
        ELSE IF llm.instance = "default" THEN DefaultModelKwargs
        ELSE [raised |-> TRUE]

\* query_endpoint hands the dump of the body's generation_config to
\* get_answer_from_rag, which hands it to get_llm_instance
ConfigureModel(generation_config, fault) ==
    /\ lastCall' = [op |-> "get_llm_instance",
                    generation_config |-> generation_config,
                    generation_config_payload |-> ModelDump(generation_config),
                    fault |-> fault,
                    model_kwargs |-> ModelKwargs(ModelDump(generation_config),
                                                 fault)]
    /\ UNCHANGED <<ingestTmp, threads>>
    /\ UNCHANGED <<FAISS_INDEX_CACHE, docTable, s3Objects, scratch, queryCache,
                   now, insertLog>>

\* the generation_config values clients send
GenerationConfigs ==
    {None} \cup
    {Some(GenerationConfig(t, p, m, s)) :
        t \in {None, Some("0.0"), Some("0.1"), Some("0.7"), Some("1.0")},
        p \in {None, Some("0.9"), Some("1.0")},
        m \in {None, Some("1000"), Some("1024")},
        s \in {None, Some(<<>>), Some(<<"END", "STOP">>)}}

ConfigFaults == {"none", "llm_dynamic_error", "llm_both_error"}

NextConfig ==
    \E generation_config \in GenerationConfigs, fault \in ConfigFaults :
        ConfigureModel(generation_config, fault)

SpecConfig == InitQuery /\ [][NextConfig]_vars

----------------------------------------------------------------------------
(* The composite and its search, for the two orders of two documents *)

MaxScore == 5

\* the records of completed documents, in the order given
CompletedRecords(document_ids) ==
    [i \in 1..Len(document_ids) |->
        [document_id |-> document_ids[i], processing_status |-> "completed"]]

\* the composite that steps 3 and 4 of _load_and_merge_faiss_indices_for_srd
\* build from the records processed_docs
Composite(bucket, owner_id, srd_id, processed_docs) ==
    LET acc == LoadLoop(bucket, owner_id, srd_id, processed_docs, NoFaults, 1,
                        [stores |-> <<>>, loaded |-> {}, s3Calls |-> 0,
                         errors |-> 0, scratch |-> {}, made |-> {},
                         raised |-> FALSE])
    IN  MergeStores(acc.stores, Len(acc.stores))

\* the position of the entry nearest to the query among those left; of two
\* entries at the same distance the index returns the one added first
Nearest(store, score, left) ==
    CHOOSE p \in left :
        \A q \in left \ {p} :
            \/ score[store[p]] < score[store[q]]
            \/ score[store[p]] = score[store[q]] /\ p < q

RECURSIVE NearestFirst(_, _, _)
NearestFirst(store, score, left) ==
    IF left = {} THEN <<>>
    ELSE LET p == Nearest(store, score, left)
         IN  <<store[p]>> \o NearestFirst(store, score, left \ {p})

SimilarityOrderAsStored(store, score) == store

\* the chunks of the store from the nearest to the query to the farthest
SimilarityOrder(store, score) == NearestFirst(store, score, DOMAIN store)

\* retriever.invoke on the store for a query at the distances score
Search(store, score, k) == Retrieve(store, SimilarityOrder(store, score), k)

\* the composites of the documents a and b loaded in the two orders, and what
\* a search with k results returns from each
MergeInOrders(a, b, score, k) ==
    LET ab == Composite(s3Objects, IndexTenant[1], IndexTenant[2],
                        CompletedRecords(<<a, b>>))
        ba == Composite(s3Objects, IndexTenant[1], IndexTenant[2],
                        CompletedRecords(<<b, a>>))
    IN  /\ lastCall' = [op |-> "merge_orders", first |-> a, second |-> b,
                        score |-> score, k |-> k, ab |-> ab, ba |-> ba,
                        topAB |-> Search(ab, score, k),
                        topBA |-> Search(ba, score, k)]
        /\ UNCHANGED <<FAISS_INDEX_CACHE, docTable, s3Objects, scratch,
                       queryCache, now, insertLog, ingestTmp, threads>>

\* the distances of the chunks of the given documents to a query
Scores(document_ids) ==
    [{ArtifactOf(IndexTenant[1], IndexTenant[2], d) : d \in document_ids}
        -> 1..MaxScore]

NextMerge ==
    \E a \in DocIds, b \in DocIds, k \in {1, NumDocs, DEFAULT_NUMBER_OF_DOCUMENTS} :
    \E score \in Scores({a, b}) :
        /\ a # b
        /\ MergeInOrders(a, b, score, k)

SpecMerge == InitQuery /\ [][NextMerge]_vars

----------------------------------------------------------------------------
(* Two calls of _load_and_merge_faiss_indices_for_srd in threads of one
   process: no lock is taken, and a call can be preempted between any two
   of its operations on the cache, on /tmp, on the table and on the bucket *)

ThreadIds == {"t1", "t2"}

Idle ==
    [pc |-> "idle", owner |-> NoKey, srd |-> NoKey, docs |-> <<>>,
     stores |-> <<>>, oldest_key |-> NoKey, outcome |-> "none",
     error |-> "none"]

\* the frame of thread t after a step
Goto(t, pc) == [threads EXCEPT ![t].pc = pc]
Return(t, outcome, error) ==
    [threads EXCEPT ![t].pc = "done", ![t].outcome = outcome,
                    ![t].error = error]

\* os.path.join(local_faiss_dir, f"{document_id}.faiss") and the .pkl
LocalFiles(composite_key, document_id) ==
    {Append(LocalFaissDir(composite_key, document_id), document_id \o <<e>>) :
        e \in IndexParts}

FrameKey(f) == CompositeKey(f.owner, f.srd)

\* what every step of thread t leaves alone, and the trace of the step
Step(t) ==
    /\ lastCall' = [op |-> "thread_step", thread |-> t]
    /\ UNCHANGED <<docTable, s3Objects, queryCache, now, ingestTmp>>

\* the call starts
Begin(t, owner_id, srd_id) ==
    /\ Step(t)
    /\ threads[t].pc = "idle"
    /\ threads' = [threads EXCEPT ![t].pc = "check", ![t].owner = owner_id,
                                  ![t].srd = srd_id]
    /\ UNCHANGED <<FAISS_INDEX_CACHE, scratch, insertLog>>

\* if composite_key in FAISS_INDEX_CACHE
Check(t) ==
    /\ Step(t)
    /\ threads[t].pc = "check"
    /\ threads' = Goto(t, IF CacheCheck(FAISS_INDEX_CACHE, FrameKey(threads[t]))
                          THEN "get" ELSE "list")
    /\ UNCHANGED <<FAISS_INDEX_CACHE, scratch, insertLog>>

\* return FAISS_INDEX_CACHE[composite_key]
Get(t) ==
    /\ Step(t)
    /\ threads[t].pc = "get"
    /\ threads' = IF CacheCheck(FAISS_INDEX_CACHE, FrameKey(threads[t]))
                  THEN Return(t, "hit", "none")
                  ELSE Return(t, "raise", "KeyError")
    /\ UNCHANGED <<FAISS_INDEX_CACHE, scratch, insertLog>>

\* the query of the table and the filter on completed
List(t) ==
    /\ Step(t)
    /\ threads[t].pc = "list"
    /\ LET docs == ProcessedDocs(ListDocumentRecords(docTable, threads[t].owner,
                                                     threads[t].srd))
       IN  threads' = IF docs = <<>> THEN Return(t, "none", "none")
                      ELSE [threads EXCEPT ![t].pc = "rmtree", ![t].docs = docs]
    /\ UNCHANGED <<FAISS_INDEX_CACHE, scratch, insertLog>>

\* shutil.rmtree(temp_base_dir, ignore_errors=True), before the loop
RmTreeBefore(t) ==
    /\ Step(t)
    /\ threads[t].pc = "rmtree"
    /\ scratch' = RmTree(scratch, TempBaseDir(FrameKey(threads[t])))
    /\ threads' = Goto(t, "makedirs")
    /\ UNCHANGED <<FAISS_INDEX_CACHE, insertLog>>

\* os.makedirs(local_faiss_dir, exist_ok=True)
MakeLocalDir(t) ==
    /\ Step(t)
    /\ threads[t].pc = "makedirs"
    /\ scratch' = MakeDirs(scratch,
                           LocalFaissDir(FrameKey(threads[t]),
                                         threads[t].docs[1].document_id))
    /\ threads' = Goto(t, "download")
    /\ UNCHANGED <<FAISS_INDEX_CACHE, insertLog>>

\* the two download_file calls: into a directory that is gone they raise an
\* OSError, which the loop does not catch
Download(t) ==
    /\ Step(t)
    /\ threads[t].pc = "download"
    /\ LET document_id == threads[t].docs[1].document_id
           dir == LocalFaissDir(FrameKey(threads[t]), document_id)
       IN  IF dir \notin scratch
           THEN /\ threads' = Return(t, "raise", "OSError")
                /\ UNCHANGED scratch
           ELSE /\ scratch' = scratch
                               \cup LocalFiles(FrameKey(threads[t]), document_id)
                /\ threads' = Goto(t, "load")
    /\ UNCHANGED <<FAISS_INDEX_CACHE, insertLog>>

\* FAISS.load_local(folder_path=local_faiss_dir, ...): without the files it
\* raises an error the loop does not catch
Load(t) ==
    /\ Step(t)
    /\ threads[t].pc = "load"
    /\ LET f == threads[t]
           document_id == f.docs[1].document_id
       IN  threads' =
             IF ~(LocalFiles(FrameKey(f), document_id) \subseteq scratch)
             THEN Return(t, "raise", "RuntimeError")
             ELSE [threads EXCEPT
                     ![t].stores =
                         Append(@, <<s3Objects[VectorObj(f.owner, f.srd,
                                                        document_id,
                                                        ".faiss")]>>),
                     ![t].docs = Tail(@),
                     ![t].pc = IF Len(f.docs) > 1 THEN "makedirs"
                               ELSE "cleanup"]
    /\ UNCHANGED <<FAISS_INDEX_CACHE, scratch, insertLog>>

\* shutil.rmtree(temp_base_dir, ignore_errors=True), after the loop
RmTreeAfter(t) ==
    /\ Step(t)
    /\ threads[t].pc = "cleanup"
    /\ scratch' = RmTree(scratch, TempBaseDir(FrameKey(threads[t])))
    /\ threads' = Goto(t, "len")
    /\ UNCHANGED <<FAISS_INDEX_CACHE, insertLog>>

\* if len(FAISS_INDEX_CACHE) >= MAX_CACHE_SIZE
CheckLen(t) ==
    /\ Step(t)
    /\ threads[t].pc = "len"
    /\ threads' = Goto(t, IF Len(FAISS_INDEX_CACHE) >= MAX_CACHE_SIZE
                          THEN "oldest" ELSE "insert")
    /\ UNCHANGED <<FAISS_INDEX_CACHE, scratch, insertLog>>

\* oldest_key = next(iter(FAISS_INDEX_CACHE))
ReadOldest(t) ==
    /\ Step(t)
    /\ threads[t].pc = "oldest"
    /\ threads' = IF FAISS_INDEX_CACHE = <<>>
                  THEN Return(t, "raise", "StopIteration")
                  ELSE [threads EXCEPT ![t].pc = "pop",
                                       ![t].oldest_key = FAISS_INDEX_CACHE[1].key]
    /\ UNCHANGED <<FAISS_INDEX_CACHE, scratch, insertLog>>

\* FAISS_INDEX_CACHE.pop(oldest_key)
Pop(t) ==
    /\ Step(t)
    /\ threads[t].pc = "pop"
    /\ IF CacheCheck(FAISS_INDEX_CACHE, threads[t].oldest_key)
       THEN /\ FAISS_INDEX_CACHE'
                 = SelectSeq(FAISS_INDEX_CACHE,
                             LAMBDA e : e.key # threads[t].oldest_key)
            /\ threads' = Goto(t, "insert")
       ELSE /\ threads' = Return(t, "raise", "KeyError")
            /\ UNCHANGED FAISS_INDEX_CACHE
    /\ UNCHANGED <<scratch, insertLog>>

\* FAISS_INDEX_CACHE[composite_key] = merged_vector_store
Insert(t) ==
    /\ Step(t)
    /\ threads[t].pc = "insert"
    /\ FAISS_INDEX_CACHE'
         = DictSet(FAISS_INDEX_CACHE, FrameKey(threads[t]),
                   MergeStores(threads[t].stores, Len(threads[t].stores)))
    /\ insertLog' = Append(insertLog, FrameKey(threads[t]))
    /\ threads' = Return(t, "built", "none")
    /\ UNCHANGED scratch

\* the composites of n other tenants, cached by earlier calls
Cached(n) ==
    [i \in 1..n |->
        [key |-> CompositeKey(TenantAt(2 + i)[1], TenantAt(2 + i)[2]),
         store |-> <<ArtifactOf(TenantAt(2 + i)[1], TenantAt(2 + i)[2],
                                DocId(1))>>]]

ThreadDocs ==
    IndexDocs \cup {<<TenantAt(2)[1], TenantAt(2)[2], DocId(1)>>}

\* the cache is full, or one entry short of it; both tenants have documents
InitThreads ==
    /\ \E n \in {MAX_CACHE_SIZE - 1, MAX_CACHE_SIZE} :
          /\ FAISS_INDEX_CACHE = Cached(n)
          /\ insertLog = [i \in 1..n |-> Cached(n)[i].key]
    /\ docTable = TableOf(ThreadDocs)
    /\ s3Objects = BucketOf(ThreadDocs)
    /\ scratch = {}
    /\ queryCache = <<>>
    /\ now = 0
    /\ lastCall = NoCall
    /\ ingestTmp = {}
    /\ threads = [t \in ThreadIds |-> Idle]

NextThreads ==
    \/ \E t \in ThreadIds, x \in QueryTenants : Begin(t, x[1], x[2])
    \/ \E t \in ThreadIds : Check(t)
    \/ \E t \in ThreadIds : Get(t)
    \/ \E t \in ThreadIds : List(t)
    \/ \E t \in ThreadIds : RmTreeBefore(t)
    \/ \E t \in ThreadIds : MakeLocalDir(t)
    \/ \E t \in ThreadIds : Download(t)
    \/ \E t \in ThreadIds : Load(t)
    \/ \E t \in ThreadIds : RmTreeAfter(t)
    \/ \E t \in ThreadIds : CheckLen(t)
    \/ \E t \in ThreadIds : ReadOldest(t)
    \/ \E t \in ThreadIds : Pop(t)
    \/ \E t \in ThreadIds : Insert(t)

SpecThreads == InitThreads /\ [][NextThreads]_vars

----------------------------------------------------------------------------
(* Index cache: bound, eviction order, hits *)

Range(seq) == {seq[i] : i \in 1..Len(seq)}

\* position of the latest insertion of key in log (0 if never inserted)
LastInsert(log, key) ==
    IF key \in Range(log)
    THEN CHOOSE i \in 1..Len(log) :
            log[i] = key /\ \A j \in (i + 1)..Len(log) : log[j] # key
    ELSE 0

\* C1: the index cache never holds more than MAX_CACHE_SIZE entries (one per
\* key); once MAX_CACHE_SIZE + 1 distinct composites have been inserted it
\* holds exactly MAX_CACHE_SIZE, and right after the (MAX_CACHE_SIZE + 1)-th
\* distinct insertion the first-inserted key is absent.
C1_CacheBound ==
    /\ Len(FAISS_INDEX_CACHE) <= MAX_CACHE_SIZE
    /\ Cardinality(CacheKeys(FAISS_INDEX_CACHE)) = Len(FAISS_INDEX_CACHE)
    /\ Cardinality(Range(insertLog)) >= MAX_CACHE_SIZE + 1
         => Len(FAISS_INDEX_CACHE) = MAX_CACHE_SIZE
    /\ (Len(insertLog) = MAX_CACHE_SIZE + 1
          /\ Cardinality(Range(insertLog)) = MAX_CACHE_SIZE + 1)
         => insertLog[1] \notin CacheKeys(FAISS_INDEX_CACHE)

C1_Witness ==
    /\ Len(insertLog) = MAX_CACHE_SIZE + 1
    /\ Cardinality(Range(insertLog)) = MAX_CACHE_SIZE + 1
    /\ lastCall.op = "get_tenant_index" /\ lastCall.outcome = "built"
    /\ Len(FAISS_INDEX_CACHE) = MAX_CACHE_SIZE

\* C2: a call that inserts into a full cache removes exactly the entry whose
\* insertion is the earliest among the cached entries, whatever hits happened
\* since (eviction follows insertion order, not access order).
C2_FifoEviction ==
    [][(Len(insertLog') = Len(insertLog) + 1
          /\ Len(FAISS_INDEX_CACHE) >= MAX_CACHE_SIZE)
        => \E old \in CacheKeys(FAISS_INDEX_CACHE) :
              /\ \A k \in CacheKeys(FAISS_INDEX_CACHE) \ {old} :
                    LastInsert(insertLog, old) < LastInsert(insertLog, k)
              /\ CacheKeys(FAISS_INDEX_CACHE') =
                    (CacheKeys(FAISS_INDEX_CACHE) \ {old})
                        \cup {insertLog'[Len(insertLog')]}]_vars

\* an eviction of the entry that the call just before it hit
C2_Witness ==
    /\ lastCall.op = "get_tenant_index" /\ lastCall.outcome = "built"
    /\ lastCall.evicted # NoKey
    /\ lastCall.evicted = lastCall.hitBefore
    /\ lastCall.evicted \notin CacheKeys(FAISS_INDEX_CACHE)

\* C3: a call for a key that is in the cache makes no metadata-store and no
\* object-store call, returns the cached composite, and leaves the cache
\* (contents and order) and the scratch area unchanged.
C3_CacheHitNoIo ==
    [][(lastCall'.op = "get_tenant_index"
          /\ lastCall'.key \in CacheKeys(FAISS_INDEX_CACHE))
        => /\ lastCall'.dbCalls = 0
           /\ lastCall'.s3Calls = 0
           /\ lastCall'.outcome = "hit"
           /\ lastCall'.store = CacheGet(FAISS_INDEX_CACHE, lastCall'.key)
           /\ FAISS_INDEX_CACHE' = FAISS_INDEX_CACHE
           /\ scratch' = scratch]_vars

\* a hit on an entry that is not the last inserted, in a cache of several
C3_Witness ==
    /\ lastCall.op = "get_tenant_index" /\ lastCall.outcome = "hit"
    /\ Len(FAISS_INDEX_CACHE) >= 2
    /\ FAISS_INDEX_CACHE[1].key = lastCall.key
    /\ lastCall.store = FAISS_INDEX_CACHE[1].store

----------------------------------------------------------------------------
(* Index engine: which documents a composite holds, failures, scratch *)

\* the documents of a tenant key whose record says completed
CompletedIn(table, key) ==
    {d \in DocIds : Lookup(table, <<key, d>>) = "completed"}

\* both parts of the document's index artifact are in the bucket
Loadable(bucket, owner_id, srd_id, d) ==
    \A e \in IndexParts :
        Lookup(bucket, VectorObj(owner_id, srd_id, d, e)) # "absent"

\* the completed documents of a miss call whose artifact does not load
FailingDocs(table, bucket, call) ==
    {d \in CompletedIn(table, call.key) :
        \/ ~Loadable(bucket, call.owner, call.srd, d)
        \/ call.faults[d] # "none"}

IsMiss(call) == call.op = "get_tenant_index" /\ call.outcome # "hit"

\* C4 (as claimed): in every reachable state the composite a query searches
\* for a tenant key holds the chunks of exactly the documents of that key
\* whose status is completed.
C4_ExactlyCompleted ==
    \A t \in CacheTenants :
        CacheCheck(FAISS_INDEX_CACHE, CompositeKey(t[1], t[2]))
          => Range(CacheGet(FAISS_INDEX_CACHE, CompositeKey(t[1], t[2])))
               = {ArtifactOf(t[1], t[2], d) :
                    d \in CompletedIn(docTable, CompositeKey(t[1], t[2]))}

\* C4 (amended): a composite built on a cache miss holds the chunks of
\* exactly the documents that are completed at that moment and whose artifact
\* loaded; ingesting or deleting a document afterwards leaves the cached
\* composite as it is.
C4_CompletedAtBuild ==
    [][/\ (lastCall'.op = "get_tenant_index" /\ lastCall'.outcome = "built")
          => /\ Range(lastCall'.store)
                  = {ArtifactOf(lastCall'.owner, lastCall'.srd, d) :
                       d \in CompletedIn(docTable, lastCall'.key)
                               \ FailingDocs(docTable, s3Objects, lastCall')}
             /\ CacheGet(FAISS_INDEX_CACHE', lastCall'.key) = lastCall'.store
       /\ lastCall'.op \in {"process_s3_object", "delete_document_record"}
          => FAISS_INDEX_CACHE' = FAISS_INDEX_CACHE]_vars

\* a composite merged from two documents is in the cache after one of them
\* was deleted
C4_Witness ==
    /\ lastCall.op = "delete_document_record"
    /\ \E t \in CacheTenants :
          /\ CacheCheck(FAISS_INDEX_CACHE, CompositeKey(t[1], t[2]))
          /\ Len(CacheGet(FAISS_INDEX_CACHE, CompositeKey(t[1], t[2]))) >= 2
          /\ \E d \in DocIds :
                /\ ArtifactOf(t[1], t[2], d)
                     \in Range(CacheGet(FAISS_INDEX_CACHE,
                                        CompositeKey(t[1], t[2])))
                /\ <<CompositeKey(t[1], t[2]), d>> \notin DOMAIN docTable

\* C5 (as claimed): on a cache miss with several completed documents of which
\* some fail to download or to deserialize, the call returns and caches the
\* composite of the others and logs the failures.
C5_PartialFailureTolerated ==
    (/\ IsMiss(lastCall)
     /\ lastCall.env = "none"
     /\ FailingDocs(docTable, s3Objects, lastCall) # {}
     /\ FailingDocs(docTable, s3Objects, lastCall)
          # CompletedIn(docTable, lastCall.key))
    => /\ lastCall.outcome = "built"
       /\ lastCall.errors
            = Cardinality(FailingDocs(docTable, s3Objects, lastCall))
       /\ Range(lastCall.store)
            = {ArtifactOf(lastCall.owner, lastCall.srd, d) :
                 d \in CompletedIn(docTable, lastCall.key)
                         \ FailingDocs(docTable, s3Objects, lastCall)}
       /\ CacheCheck(FAISS_INDEX_CACHE, lastCall.key)

\* C6: a call that misses the cache while the metadata store gives no
\* completed record for the key (none at all, none completed, or an error of
\* the store) returns None, downloads nothing and caches nothing.
C6_NotFoundWithoutCompleted ==
    [][(/\ lastCall'.op = "get_tenant_index"
        /\ ~CacheCheck(FAISS_INDEX_CACHE, lastCall'.key)
        /\ \/ lastCall'.env = "db_error"
           \/ CompletedIn(docTable, lastCall'.key) = {})
       => /\ lastCall'.outcome = "none"
          /\ lastCall'.s3Calls = 0
          /\ lastCall'.made = {}
          /\ FAISS_INDEX_CACHE' = FAISS_INDEX_CACHE]_vars

\* None is returned while a document that is not completed has its whole
\* artifact in the bucket
C6_Witness ==
    /\ IsMiss(lastCall)
    /\ lastCall.outcome = "none"
    /\ lastCall.env = "none"
    /\ lastCall.s3Calls = 0
    /\ \E d \in DocIds :
          /\ Lookup(docTable, <<lastCall.key, d>>) = "processing"
          /\ Loadable(s3Objects, lastCall.owner, lastCall.srd, d)

\* C7 (as claimed): a call that misses the cache while completed documents
\* exist and none of their artifacts loads returns None and logs an error.
C7_NotFoundWhenNoneLoaded ==
    (/\ IsMiss(lastCall)
     /\ lastCall.env = "none"
     /\ CompletedIn(docTable, lastCall.key) # {}
     /\ FailingDocs(docTable, s3Objects, lastCall)
          = CompletedIn(docTable, lastCall.key))
    => /\ lastCall.outcome = "none"
       /\ lastCall.errors >= 1

\* C8 (as claimed): when a call that missed the cache ends, by a return or
\* by an exception, none of the scratch directories it made is on disk.
C8_ScratchRemoved ==
    IsMiss(lastCall) => lastCall.made \cap scratch = {}

----------------------------------------------------------------------------
(* Answer cache: time to live, deduplication of generations *)

Source(result) == IF "source" \in DOMAIN result THEN result.source ELSE "none"

\* the call returned the answer of the entry its lookup found
IsCacheHit(call) ==
    /\ call.op = "get_answer_from_rag"
    /\ call.lookup # NoItem
    /\ call.result = Answer(call.lookup.answer, "cache")

\* the call's lookup found an entry (the read of the store worked)
FoundEntry(call) ==
    /\ call.op = "get_answer_from_rag"
    /\ call.invoke
    /\ call.lookup # NoItem

\* ticks between the writing of the entry the call found and the call
Elapsed(call) == now - call.lookup.timestamp

\* C9 (as claimed): an entry written with CACHE_TTL_SECONDS is returned by
\* the lookup at every time less than CACHE_TTL_SECONDS after its writing and
\* is a miss at every later time; it is used iff now < ttl.
C9_TtlWindow ==
    FoundEntry(lastCall)
      => /\ IsCacheHit(lastCall) <=> Elapsed(lastCall) < TtlTicks
         /\ IsCacheHit(lastCall)
              <=> now < StrToInt(lastCall.lookup.ttl) * TicksPerSecond

\* C9 (amended): the stored ttl is the writing time plus CACHE_TTL_SECONDS
\* cut down to whole seconds; an entry is used iff now < ttl, so it is
\* returned up to CACHE_TTL_SECONDS - 1 seconds after its writing and is a
\* miss from CACHE_TTL_SECONDS seconds after it.
C9_TtlWholeSeconds ==
    FoundEntry(lastCall)
      => /\ IsCacheHit(lastCall)
              <=> now < StrToInt(lastCall.lookup.ttl) * TicksPerSecond
         /\ StrToInt(lastCall.lookup.ttl)
              = (lastCall.lookup.timestamp + TtlTicks) \div TicksPerSecond
         /\ Elapsed(lastCall) <= TtlTicks - TicksPerSecond
              => IsCacheHit(lastCall)
         /\ Elapsed(lastCall) >= TtlTicks => ~IsCacheHit(lastCall)

\* an entry written at a fraction of a second is a miss less than
\* CACHE_TTL_SECONDS after its writing, and the answer is generated again
C9_Witness ==
    /\ FoundEntry(lastCall)
    /\ ~IsCacheHit(lastCall)
    /\ Elapsed(lastCall) < TtlTicks
    /\ Source(lastCall.result) = "bedrock_llm"

NoWork(call) ==
    /\ call.indexLoads = 0
    /\ call.retrievals = 0
    /\ call.llmConfigs = 0
    /\ call.llmCalls = 0
    /\ call.putCalls = 0

\* C10 (as claimed): a generation query that finds the answer of an earlier
\* one with the same owner, collection and text, written less than
\* CACHE_TTL_SECONDS before, returns it with source cache and loads no index,
\* retrieves nothing, configures and invokes no model and writes no entry.
C10_DedupWithinTtl ==
    (FoundEntry(lastCall) /\ Elapsed(lastCall) < TtlTicks)
      => IsCacheHit(lastCall) /\ NoWork(lastCall)

\* C10 (amended): with a working cache store, a generation that succeeds
\* stores its answer under the key of owner, collection and text after one
\* invocation of the model; a later generation query with the same key
\* issued before the stored ttl (the writing time plus CACHE_TTL_SECONDS cut
\* down to whole seconds) returns that answer with source cache, and loads no
\* index, retrieves nothing, configures and invokes no model and writes
\* nothing.
C10_DedupBeforeTtl ==
    [][/\ (/\ lastCall'.op = "get_answer_from_rag"
           /\ lastCall'.invoke
           /\ lastCall'.fault \notin LookupFaults
           /\ lastCall'.query_hash \in DOMAIN queryCache
           /\ now < StrToInt(queryCache[lastCall'.query_hash].ttl)
                      * TicksPerSecond)
          => /\ lastCall'.result
                  = Answer(queryCache[lastCall'.query_hash].answer, "cache")
             /\ NoWork(lastCall')
             /\ UNCHANGED <<FAISS_INDEX_CACHE, scratch, insertLog, queryCache,
                            docTable, s3Objects>>
       /\ (/\ lastCall'.op = "get_answer_from_rag"
           /\ lastCall'.fault = "none"
           /\ Source(lastCall'.result) = "bedrock_llm"
           /\ lastCall'.result.answer # NoAnswerGenerated)
          => /\ lastCall'.llmCalls = 1
             /\ lastCall'.query_hash \in DOMAIN queryCache'
             /\ queryCache'[lastCall'.query_hash].answer
                  = lastCall'.result.answer
             /\ queryCache'[lastCall'.query_hash].timestamp = now]_vars

\* the second query, late in the window, gets the first's answer from the
\* cache
C10_Witness ==
    /\ IsCacheHit(lastCall)
    /\ NoWork(lastCall)
    /\ Elapsed(lastCall) >= TtlTicks - TicksPerSecond
    /\ lastCall.query_hash \in DOMAIN queryCache
    /\ queryCache[lastCall.query_hash] = lastCall.lookup

----------------------------------------------------------------------------
(* Query orchestrator: failures of the cache store, result kinds *)

IsQuery(call) == call.op = "get_answer_from_rag"

\* C11 (as claimed): when the generation succeeded and the write of its
\* answer to the cache store fails, with whatever error, the query returns
\* the generated answer with source bedrock_llm.
C11_CacheWriteBestEffort ==
    (/\ IsQuery(lastCall)
     /\ lastCall.fault \in {"put_client_error", "put_other_error"}
     /\ lastCall.putCalls = 1)
    => /\ Source(lastCall.result) = "bedrock_llm"
       /\ lastCall.result.answer \in GenAnswers

\* C12: a generation query whose cache lookup fails (an error of the store,
\* or an item that cannot be read) goes on to the index load as on a miss:
\* the lookup gives no entry, no exception leaves the call and the result
\* does not come from the cache.
C12_LookupFailsOpen ==
    [][(IsQuery(lastCall') /\ lastCall'.fault \in LookupFaults)
        => /\ lastCall'.getCalls = 1
           /\ lastCall'.lookup = NoItem
           /\ lastCall'.indexLoads = 1
           /\ lastCall'.result # Raised
           /\ Source(lastCall'.result) # "cache"
           /\ CacheCheck(FAISS_INDEX_CACHE, CompositeKey(lastCall'.owner, lastCall'.srd))
                => /\ lastCall'.result = Answer("a1", "bedrock_llm")
                   /\ queryCache'[lastCall'.query_hash].timestamp = now]_vars

\* the lookup failed on an item with an unreadable ttl and the answer was
\* generated and stored
C12_Witness ==
    /\ IsQuery(lastCall)
    /\ lastCall.fault = "get_bad_ttl"
    /\ Source(lastCall.result) = "bedrock_llm"
    /\ lastCall.putCalls = 1

\* C13 (as claimed): no call of get_answer_from_rag ends with an exception;
\* each ends with an answer or an error result.
C13_TypedResult ==
    IsQuery(lastCall) => lastCall.result # Raised

\* C14 (as claimed): when the configuration of the request's model fails,
\* get_llm_instance tries the default configuration once; with the default
\* instance the model is invoked, and when the default fails too the result
\* is the error 'Generative LLM component could not be configured'.
C14_ConfigFallback ==
    (/\ IsQuery(lastCall)
     /\ lastCall.llmConfigs = 1
     /\ lastCall.fault \in {"llm_dynamic_error", "llm_both_error"})
    => /\ lastCall.attempts = 2
       /\ lastCall.fault = "llm_dynamic_error"
            => lastCall.instance = "default" /\ lastCall.llmCalls = 1
       /\ lastCall.fault = "llm_both_error"
            => lastCall.result = Failure(NotConfigured)

\* C15: a query with invoke_generative_llm false makes no get and no put on
\* the cache store and leaves the answer cache as it is, on every path.
C15_RetrievalOnlySkipsCache ==
    [][(IsQuery(lastCall') /\ ~lastCall'.invoke)
        => /\ lastCall'.getCalls = 0
           /\ lastCall'.putCalls = 0
           /\ lastCall'.lookup = NoItem
           /\ queryCache' = queryCache]_vars

\* a retrieval-only query answered while the answer cache holds an entry
C15_Witness ==
    /\ IsQuery(lastCall)
    /\ ~lastCall.invoke
    /\ Source(lastCall.result) = "retrieval_only"
    /\ DOMAIN queryCache # {}

\* C16: the answer cache changes only in a query that invoked the model and
\* got an answer, and then holds that answer; a query that ends in an error
\* result, in an exception or in a cache hit leaves the answer cache as it is.
C16_WriteOnlyAfterGeneration ==
    [][/\ queryCache' # queryCache
          => /\ IsQuery(lastCall')
             /\ lastCall'.llmCalls = 1
             /\ lastCall'.putCalls = 1
             /\ lastCall'.result.answer \in GenAnswers
             /\ lastCall'.result
                  = Answer(queryCache'[lastCall'.query_hash].answer,
                           "bedrock_llm")
       /\ (IsQuery(lastCall') /\ lastCall'.putCalls >= 1)
          => lastCall'.llmCalls = 1 /\ lastCall'.instance # "none"
       /\ (IsQuery(lastCall') /\ Source(lastCall'.result) # "bedrock_llm")
          => lastCall'.putCalls = 0 \/ lastCall'.fault = "put_other_error"
       /\ (IsQuery(lastCall') /\ Source(lastCall'.result) # "bedrock_llm")
          => queryCache' = queryCache]_vars

\* a generated answer replaces the expired entry of the same key
C16_Witness ==
    /\ IsQuery(lastCall)
    /\ lastCall.putCalls = 1
    /\ lastCall.lookup # NoItem
    /\ lastCall.query_hash \in DOMAIN queryCache
    /\ queryCache[lastCall.query_hash].timestamp = now
    /\ lastCall.result = Answer(queryCache[lastCall.query_hash].answer,
                                "bedrock_llm")

\* C18: a retrieval-only query whose index loads and whose search runs gets
\* an answer with source retrieval_only, never an error: the fixed 'no
\* information found' text when the search returns nothing, and otherwise the
\* texts of the returned chunks, in the order returned, with the separator
\* between them.
C18_RetrievalOnlyAnswer ==
    (/\ IsQuery(lastCall)
     /\ ~lastCall.invoke
     /\ lastCall.fault = "none"
     /\ CacheCheck(FAISS_INDEX_CACHE, CompositeKey(lastCall.owner, lastCall.srd)))
    => /\ Source(lastCall.result) = "retrieval_only"
       /\ lastCall.retrievals = 1
       /\ IF lastCall.docs = <<>>
          THEN lastCall.result.answer = NoInformationFound
          ELSE LET body == lastCall.result.answer.body
                   n == Len(lastCall.docs)
               IN  /\ Len(body) = 2 * n - 1
                   /\ \A i \in 1..n : body[2 * i - 1] = lastCall.docs[i]
                   /\ \A i \in 1..(n - 1) : body[2 * i] = Separator

\* two chunks are returned in the order opposite to that of the composite
C18_Witness ==
    /\ IsQuery(lastCall)
    /\ ~lastCall.invoke
    /\ Len(lastCall.docs) >= 2
    /\ CacheCheck(FAISS_INDEX_CACHE, CompositeKey(lastCall.owner, lastCall.srd))
    /\ lastCall.docs[1]
         # CacheGet(FAISS_INDEX_CACHE,
                    CompositeKey(lastCall.owner, lastCall.srd))[1]
    /\ Len(lastCall.result.answer.body) = 3

\* C19 (as claimed): a retrieval-only query whose search raises an error
\* returns the error result 'Failed to prepare for information retrieval.'
C19_RetrieverInvokeError ==
    (/\ IsQuery(lastCall)
     /\ ~lastCall.invoke
     /\ lastCall.fault = "retriever_invoke_error"
     /\ lastCall.retrievals = 1)
    => lastCall.result = Failure(FailedToPrepare)

----------------------------------------------------------------------------
(* Query endpoint: what the answer cache key covers, status codes *)

IsEndpointQuery(call) == call.op = "query_endpoint" /\ call.rag # NoCall

\* the entry was stored for the owner, collection and text of the request
SameKey(item, call) ==
    /\ item.owner_id = call.rag.owner
    /\ item.srd_id = Strip(call.request.srd_id)
    /\ item.query_text = Strip(call.request.query_text)

\* C17: a generation request is answered from the entry stored for its
\* owner, collection and query text whenever that entry has not reached its
\* ttl, whatever the generation parameters, the conversational flag and the
\* number of documents of the request and of the one that stored the entry:
\* the response is 200 with the stored answer and source cache, no model is
\* invoked and the cache is left as it is. An answer from the cache is always
\* that of an entry with the request's owner, collection and text.
C17_KeyIgnoresSettings ==
    [][/\ (/\ IsEndpointQuery(lastCall')
           /\ lastCall'.request.invoke_generative_llm
           /\ lastCall'.rag.fault \notin LookupFaults)
          => \A h \in DOMAIN queryCache :
                (/\ SameKey(queryCache[h], lastCall')
                 /\ now < StrToInt(queryCache[h].ttl) * TicksPerSecond)
                => /\ lastCall'.status_code = 200
                   /\ lastCall'.content = Answer(queryCache[h].answer, "cache")
                   /\ NoWork(lastCall'.rag)
                   /\ queryCache' = queryCache
       /\ (IsEndpointQuery(lastCall') /\ Source(lastCall'.content) = "cache")
          => /\ lastCall'.request.invoke_generative_llm
             /\ SameKey(lastCall'.rag.lookup, lastCall')]_vars

\* a request with the conversational flag, another configuration and another
\* number of documents gets the answer stored for a plain request
C17_Witness ==
    /\ IsEndpointQuery(lastCall)
    /\ lastCall.status_code = 200
    /\ Source(lastCall.content) = "cache"
    /\ lastCall.request.use_conversation_style
    /\ ~lastCall.rag.lookup.was_conversational
    /\ lastCall.request.generation_config = "hot"
    /\ lastCall.rag.lookup.generation_config_used = "default"
    /\ lastCall.request.number_of_documents # DEFAULT_NUMBER_OF_DOCUMENTS
    /\ now > lastCall.rag.lookup.timestamp

\* C20 (as claimed): query_endpoint answers 503 when get_answer_from_rag
\* reports that the retriever or the model could not be set up, 404 when it
\* reports that the collection could not be loaded, and 500 for every other
\* error.
C20_StatusOfError ==
    (IsEndpointQuery(lastCall) /\ "error" \in DOMAIN lastCall.content)
    => lastCall.status_code
         = IF lastCall.content \in {Failure(FailedToPrepare),
                                    Failure(NotConfigured)}
           THEN 503
           ELSE IF lastCall.content.error.text
                     = CouldNotLoad(CompositeKey(
                           lastCall.rag.owner,
                           Strip(lastCall.request.srd_id))).text
           THEN 404
           ELSE 500

----------------------------------------------------------------------------
(* Model configuration through the endpoint *)

\* the value the request gives to a field of its generation_config, or the
\* default of the field
Requested(generation_config, field, default) ==
    IF generation_config = None THEN default
    ELSE OrDefault(generation_config[1][field], default)

\* C21 (as claimed): when the model is configured with the request's
\* generation_config, its temperature, top_p, max tokens and stop sequences
\* are those the request sets, and 0.1, 1.0, 1024 and none for those it
\* leaves out.
C21_RequestConfigures ==
    (lastCall.op = "get_llm_instance" /\ lastCall.fault = "none")
    => LET cfg == lastCall.generation_config
           kw == lastCall.model_kwargs
       IN  /\ kw.temperature = Requested(cfg, "temperature", "0.1")
           /\ kw.top_p = Requested(cfg, "top_p", "1.0")
           /\ kw.max_tokens = Requested(cfg, "max_token_count", "1024")
           /\ kw.stop_sequences = Requested(cfg, "stop_sequences", <<>>)

----------------------------------------------------------------------------
(* Ingestor: empty sources, errors, scratch files *)

IsIngest(call) == call.op = "process_s3_object"

\* the status of the document of an ingestor call in a metadata table
StatusOf(table, call) ==
    table[<<CompositeKey(call.document[1], call.document[2]), call.document[3]>>]

\* C22: with the metadata table taking its updates, a run of
\* process_s3_object on a source that gives no pages, or no chunks, sets the
\* status to processing and then to failed, returns None, makes no embedding
\* call and no upload, and leaves the buckets as they are.
C22_EmptySourceFails ==
    [][(/\ IsIngest(lastCall')
        /\ lastCall'.stage \in {"no_documents", "no_chunks"}
        /\ lastCall'.lastUpdate = "ok")
       => /\ lastCall'.statuses = <<"processing", "failed">>
          /\ StatusOf(docTable', lastCall') = "failed"
          /\ lastCall'.result = [returned |-> "None"]
          /\ lastCall'.embedCalls = 0
          /\ lastCall'.uploadCalls = 0
          /\ s3Objects' = s3Objects]_vars

\* a document that was completed is ingested again from a source without
\* chunks: it is failed and its artifact is still in the bucket
C22_Witness ==
    /\ IsIngest(lastCall)
    /\ lastCall.stage = "no_chunks"
    /\ StatusOf(docTable, lastCall) = "failed"
    /\ \A e \in IndexParts :
          VectorObj(lastCall.document[1], lastCall.document[2],
                    lastCall.document[3], e) \in DOMAIN s3Objects

\* C23 (as claimed): with the metadata table taking its updates, a run in
\* which the download, the embedding or the save raises sets the status to
\* failed and raises that error, and a run sets the status to completed only
\* when every part of the index has been uploaded.
C23_FailedOnError ==
    (IsIngest(lastCall) /\ lastCall.lastUpdate = "ok")
    => /\ lastCall.stage \in {"download_error", "embed_error", "save_error"}
          => /\ lastCall.statuses = <<"processing", "failed">>
             /\ lastCall.result = [raised |-> lastCall.stage]
       /\ (/\ lastCall.statuses # <<>>
           /\ lastCall.statuses[Len(lastCall.statuses)] = "completed")
          => lastCall.stage = "ok" /\ lastCall.uploaded = IndexParts

PartsOf(document) ==
    {VectorObj(document[1], document[2], document[3], e) : e \in IndexParts}

\* C25: a run of process_s3_object that succeeds ends with the status
\* completed, also for a document that was completed before; it adds no record
\* to the metadata table and writes the artifact under the object keys of the
\* document, over what is there; and a composite built from the table and the
\* bucket holds the chunks of each completed document once.
C25_IdempotentIndexing ==
    [][/\ (/\ IsIngest(lastCall')
           /\ lastCall'.stage = "ok"
           /\ lastCall'.lastUpdate = "ok")
          => /\ StatusOf(docTable', lastCall') = "completed"
             /\ DOMAIN docTable' = DOMAIN docTable
             /\ lastCall'.uploaded = IndexParts
                  => /\ DOMAIN s3Objects'
                          = DOMAIN s3Objects \cup PartsOf(lastCall'.document)
                     /\ \A o \in PartsOf(lastCall'.document) :
                           s3Objects'[o] = ArtifactOf(lastCall'.document[1],
                                                      lastCall'.document[2],
                                                      lastCall'.document[3])
                     /\ \A o \in DOMAIN s3Objects \ PartsOf(lastCall'.document) :
                           s3Objects'[o] = s3Objects[o]
       /\ (lastCall'.op = "get_tenant_index" /\ lastCall'.outcome = "built")
          => LET store == lastCall'.store
             IN  /\ \A i, j \in 1..Len(store) : store[i] = store[j] => i = j
                 /\ \A d \in lastCall'.loaded :
                       \E i \in 1..Len(store) :
                          store[i] = ArtifactOf(lastCall'.owner, lastCall'.srd, d)
                 /\ Len(store) = Cardinality(lastCall'.loaded)]_vars

\* a document that is completed, with its artifact in the bucket, is indexed
\* again and is completed again, with the same objects in the bucket
C25_Witness ==
    /\ IsIngest(lastCall)
    /\ lastCall.rerun
    /\ lastCall.stage = "ok"
    /\ lastCall.uploaded = IndexParts
    /\ StatusOf(docTable, lastCall) = "completed"
    /\ PartsOf(lastCall.document) \subseteq DOMAIN s3Objects
    /\ Cardinality(DOMAIN s3Objects)
         = Cardinality(DOMAIN docTable) + Cardinality(IndexParts)

----------------------------------------------------------------------------
(* Merge order *)

IsMerge(call) == call.op = "merge_orders"

\* the chunks of a sequence, as a set
Chunks(seq) == {seq[i] : i \in 1..Len(seq)}

\* no chunk left out of the k results is as near to the query as one of them
NoTieAtCut(call) ==
    \A c \in Chunks(call.topAB), d \in Chunks(call.ab) \ Chunks(call.topAB) :
        call.score[c] # call.score[d]

----------------------------------------------------------------------------
(* Two calls at once: the cache map and the scratch directories *)

\* the call of thread t is between its first removal of the scratch
\* directory and its last
InLoop(t) == threads[t].pc \in {"makedirs", "download", "load", "cleanup"}

\* C27 (as claimed): with two calls for different tenant keys running at
\* once on one cache, in every interleaving the cache holds at most
\* MAX_CACHE_SIZE entries, and neither call fails on the cache map.
C27_ConcurrentCacheBound ==
    (\A t, u \in ThreadIds :
        t # u => FrameKey(threads[t]) # FrameKey(threads[u]))
    => /\ Len(FAISS_INDEX_CACHE) <= MAX_CACHE_SIZE
       /\ \A t \in ThreadIds : threads[t].error # "KeyError"

\* C28 (as claimed): two calls that are loading at once, for different
\* tenant keys or for the same one, use different scratch directories, and
\* no call finds the files it downloaded removed before it loads them.
C28_PrivateScratch ==
    /\ \A t, u \in ThreadIds :
          (t # u /\ InLoop(t) /\ InLoop(u))
          => TempBaseDir(FrameKey(threads[t])) # TempBaseDir(FrameKey(threads[u]))
    /\ \A t \in ThreadIds :
          threads[t].pc = "load"
          => LocalFiles(FrameKey(threads[t]), threads[t].docs[1].document_id)
                \subseteq scratch
    /\ \A t \in ThreadIds : threads[t].error \notin {"OSError", "RuntimeError"}

----------------------------------------------------------------------------
(* Staleness of a cached composite *)

\* C29: while a tenant key's composite stays in the cache, get_tenant_index
\* returns that same composite, also after another document of the key was
\* completed; ingestion never touches the cache; a key leaves the cache only
\* by eviction or a restart of the process, and the composite built on the
\* next miss holds the chunks of every document completed by then.
C29_StaleUntilRebuilt ==
    [][/\ (/\ lastCall'.op = "get_tenant_index"
           /\ lastCall'.key \in CacheKeys(FAISS_INDEX_CACHE))
          => /\ lastCall'.outcome = "hit"
             /\ lastCall'.store = CacheGet(FAISS_INDEX_CACHE, lastCall'.key)
             /\ FAISS_INDEX_CACHE' = FAISS_INDEX_CACHE
       /\ lastCall'.op = "process_s3_object"
          => FAISS_INDEX_CACHE' = FAISS_INDEX_CACHE
       /\ \A t \in CacheTenants :
             (/\ CompositeKey(t[1], t[2]) \in CacheKeys(FAISS_INDEX_CACHE)
              /\ \/ CompositeKey(t[1], t[2]) \notin CacheKeys(FAISS_INDEX_CACHE')
                 \/ CacheGet(FAISS_INDEX_CACHE', CompositeKey(t[1], t[2]))
                      # CacheGet(FAISS_INDEX_CACHE, CompositeKey(t[1], t[2])))
             => \/ lastCall'.op = "cold_start"
                \/ /\ lastCall'.op = "get_tenant_index"
                   /\ lastCall'.outcome = "built"
                   /\ lastCall'.evicted = CompositeKey(t[1], t[2])
       /\ (lastCall'.op = "get_tenant_index" /\ lastCall'.outcome = "built")
          => Range(lastCall'.store)
               = {ArtifactOf(lastCall'.owner, lastCall'.srd, d) :
                    d \in CompletedIn(docTable, lastCall'.key)}]_vars

\* a hit returns a composite without the chunks of a document that is
\* completed and whose artifact is in the bucket
C29_Witness ==
    /\ lastCall.op = "get_tenant_index"
    /\ lastCall.outcome = "hit"
    /\ \E d \in CompletedIn(docTable, lastCall.key) :
          /\ Loadable(s3Objects, lastCall.owner, lastCall.srd, d)
          /\ ArtifactOf(lastCall.owner, lastCall.srd, d)
                \notin Range(lastCall.store)

\* after an eviction the composite is rebuilt with the late document's chunks
C29_Rebuilt ==
    /\ lastCall.op = "get_tenant_index"
    /\ lastCall.outcome = "built"
    /\ ArtifactOf(lastCall.owner, lastCall.srd, LateDoc)
          \in Range(lastCall.store)
    /\ Len(insertLog) > MAX_CACHE_SIZE
    /\ \E i \in 1..(Len(insertLog) - 1) : insertLog[i] = lastCall.key

----------------------------------------------------------------------------
(* Failure to construct the retriever *)

CallKey(call) == CompositeKey(call.owner, call.srd)

\* C30: in retrieval-only and in generation mode alike, when the index was
\* loaded and constructing the retriever fails, the result is the error
\* "Failed to prepare for information retrieval." and never "Could not load
\* SRD data"; when the index load gives nothing the result is "Could not
\* load SRD data" and no retriever is constructed.
C30_RetrieverFailure ==
    IsQuery(lastCall) =>
        /\ (/\ lastCall.fault = "retriever_error"
            /\ CallKey(lastCall) \in CacheKeys(FAISS_INDEX_CACHE))
           => /\ lastCall.result = Failure(FailedToPrepare)
              /\ lastCall.result # Failure(CouldNotLoad(CallKey(lastCall)))
              /\ lastCall.retrieverBuilds = 1
              /\ lastCall.retrievals = 0
              /\ lastCall.llmCalls = 0
        /\ (/\ lastCall.indexLoads = 1
            /\ lastCall.fault # "embedding_error"
            /\ CallKey(lastCall) \notin CacheKeys(FAISS_INDEX_CACHE))
           => /\ lastCall.result = Failure(CouldNotLoad(CallKey(lastCall)))
              /\ lastCall.retrieverBuilds = 0
        /\ lastCall.result = Failure(CouldNotLoad(CallKey(lastCall)))
           => lastCall.retrieverBuilds = 0

\* a generation-mode query whose retriever construction failed
C30_Witness ==
    /\ IsQuery(lastCall)
    /\ lastCall.invoke
    /\ lastCall.fault = "retriever_error"
    /\ lastCall.result = Failure(FailedToPrepare)
    /\ lastCall.retrieverBuilds = 1

\* the same failure in a retrieval-only query
C30_WitnessRetrievalOnly ==
    /\ IsQuery(lastCall)
    /\ ~lastCall.invoke
    /\ lastCall.fault = "retriever_error"
    /\ lastCall.result = Failure(FailedToPrepare)

----------------------------------------------------------------------------
(* Failure of the generation call *)

\* C31: when the generation call raises after the index, the retriever and
\* the model were set up, get_answer_from_rag returns the error "Error
\* communicating with the AI model. Please try again." for a service client
\* error and "Failed to generate an answer using the RAG chain." for any
\* other exception, writes nothing to the answer cache, and the composite of
\* the tenant is in the index cache, the same as before when it was cached.
C31_GenerationFailure ==
    [][(/\ IsQuery(lastCall')
        /\ lastCall'.llmCalls = 1
        /\ lastCall'.generation \in {"client_error", "error"})
       => /\ lastCall'.result
               = Failure(IF lastCall'.generation = "client_error"
                         THEN ErrorCommunicating ELSE FailedToGenerate)
          /\ lastCall'.putCalls = 0
          /\ queryCache' = queryCache
          /\ CallKey(lastCall') \in CacheKeys(FAISS_INDEX_CACHE')
          /\ CallKey(lastCall') \in CacheKeys(FAISS_INDEX_CACHE)
               => FAISS_INDEX_CACHE' = FAISS_INDEX_CACHE]_vars

\* the model raised a service client error while an answer of an earlier
\* query is in the answer cache
C31_Witness ==
    /\ IsQuery(lastCall)
    /\ lastCall.generation = "client_error"
    /\ lastCall.result = Failure(ErrorCommunicating)
    /\ DOMAIN queryCache # {}
    /\ CallKey(lastCall) \in CacheKeys(FAISS_INDEX_CACHE)

----------------------------------------------------------------------------
(* Conversational style *)

\* C32: the text sent to the model is "User: {query}\nBot:" exactly when the
\* request sets both the conversational flag and generation, and the raw
\* query text otherwise; the search of a retrieval-only query uses the raw
\* text and sends nothing to the model; the key of the answer cache and the
\* query_text of the entry a query stores are those of the raw text.
C32_ConversationalOnlyWhenGenerating ==
    [][IsEndpointQuery(lastCall') =>
         LET call == lastCall'.rag
             body == lastCall'.request
             raw == Strip(body.query_text)
             hash == Md5(CacheKeyString(call.owner, Strip(body.srd_id), raw,
                                        body.invoke_generative_llm))
         IN  /\ call.llmCalls = 1
                => call.chainQuery
                     = IF body.use_conversation_style
                       THEN <<"User: ">> \o raw \o <<"\nBot:">> ELSE raw
             /\ ~body.invoke_generative_llm
                => /\ call.chainQuery = <<>>
                   /\ call.retrievals = 1 => call.searchQuery = raw
             /\ call.getCalls = 1 => call.query_hash = hash
             /\ queryCache' # queryCache
                => /\ hash \in DOMAIN queryCache'
                   /\ queryCache'[hash].query_text = raw
                   /\ \A h \in DOMAIN queryCache' \ {hash} :
                         h \in DOMAIN queryCache
                         /\ queryCache'[h] = queryCache[h]]_vars

\* a conversational generation query stored its answer
C32_Witness ==
    /\ IsEndpointQuery(lastCall)
    /\ lastCall.request.use_conversation_style
    /\ lastCall.request.invoke_generative_llm
    /\ lastCall.rag.llmCalls = 1
    /\ lastCall.rag.putCalls = 1
    /\ Len(lastCall.rag.chainQuery) > Len(Strip(lastCall.request.query_text))
    /\ \E h \in DOMAIN queryCache :
          /\ queryCache[h].was_conversational
          /\ queryCache[h].query_text = Strip(lastCall.request.query_text)

\* a conversational retrieval-only query searched with the raw text
C32_WitnessRetrievalOnly ==
    /\ IsEndpointQuery(lastCall)
    /\ lastCall.request.use_conversation_style
    /\ ~lastCall.request.invoke_generative_llm
    /\ lastCall.rag.retrievals = 1
    /\ lastCall.rag.searchQuery = Strip(lastCall.request.query_text)

----------------------------------------------------------------------------
(* Order and content of a merged composite *)

\* the chunks of the given documents of a tenant, in the order in which the
\* metadata query returns the documents (the order of the sort key)
RECURSIVE InQueryOrder(_, _, _, _)
InQueryOrder(owner_id, srd_id, documents, i) ==
    IF i > NumDocs THEN <<>>
    ELSE (IF DocId(i) \in documents
          THEN <<ArtifactOf(owner_id, srd_id, DocId(i))>> ELSE <<>>)
         \o InQueryOrder(owner_id, srd_id, documents, i + 1)

\* C33: the composite built on a cache miss is the indices of the documents
\* that loaded, merged in the order in which the metadata query returned
\* them, the first of them being the base; it holds the chunks of exactly
\* those documents; a record without document_id is skipped with no
\* directory made and no download.
C33_MergeOrderAndContent ==
    [][(lastCall'.op = "get_tenant_index" /\ lastCall'.outcome = "built")
       => LET good == CompletedIn(docTable, lastCall'.key)
                        \ FailingDocs(docTable, s3Objects, lastCall')
              noId == {d \in CompletedIn(docTable, lastCall'.key) :
                         lastCall'.faults[d] = "no_document_id"}
          IN  /\ lastCall'.loaded = good
              /\ lastCall'.store
                   = InQueryOrder(lastCall'.owner, lastCall'.srd, good, 1)
              /\ \A d \in noId :
                    /\ d \notin lastCall'.loaded
                    /\ LocalFaissDir(lastCall'.key, d) \notin lastCall'.made
              /\ lastCall'.s3Calls
                   <= 2 * Cardinality(CompletedIn(docTable, lastCall'.key)
                                        \ noId)]_vars

\* a composite was merged from two documents
C33_Witness ==
    /\ lastCall.op = "get_tenant_index"
    /\ lastCall.outcome = "built"
    /\ Len(lastCall.store) >= 2
    /\ lastCall.store[1] = ArtifactOf(lastCall.owner, lastCall.srd, DocId(1))

\* a composite was built while a completed record had no document_id
C33_WitnessNoId ==
    /\ lastCall.op = "get_tenant_index"
    /\ lastCall.outcome = "built"
    /\ \E d \in CompletedIn(docTable, lastCall.key) :
          lastCall.faults[d] = "no_document_id"
    /\ lastCall.s3Calls = 2

----------------------------------------------------------------------------
(* Lifecycle of a document's status *)

\* the changes of status the lifecycle allows
Allowed(from, to) ==
    \/ from = to
    \/ <<from, to>> \in {<<"pending", "processing">>,
                         <<"processing", "completed">>,
                         <<"processing", "failed">>,
                         <<"completed", "processing">>,
                         <<"failed", "processing">>}

\* C34: a registered document starts as pending; an indexing run changes its
\* status only from pending, completed or failed to processing and from
\* processing to completed or failed; a document that a run leaves completed
\* was set to processing by that run; a run that could not set processing
\* downloads, embeds and uploads nothing; nothing else changes a status.
C34_StatusLifecycle ==
    [][/\ lastCall'.op = "process_s3_object"
          => LET k == <<CompositeKey(lastCall'.document[1],
                                     lastCall'.document[2]),
                        lastCall'.document[3]>>
                 seq == <<docTable[k]>> \o lastCall'.statuses
             IN  /\ \A i \in 1..(Len(seq) - 1) : Allowed(seq[i], seq[i + 1])
                 /\ docTable'[k] = seq[Len(seq)]
                 /\ \A j \in DOMAIN docTable \ {k} : docTable'[j] = docTable[j]
                 /\ DOMAIN docTable' = DOMAIN docTable
                 /\ (docTable'[k] = "completed" /\ lastCall'.statuses # <<>>)
                    => lastCall'.statuses[1] = "processing"
                 /\ (docTable'[k] = "completed" /\ lastCall'.statuses = <<>>)
                    => docTable[k] = "completed"
                 /\ (lastCall'.statuses = <<>>
                        \/ lastCall'.statuses[1] # "processing")
                    => /\ lastCall'.embedCalls = 0
                       /\ lastCall'.uploadCalls = 0
                       /\ s3Objects' = s3Objects
                       /\ ingestTmp' = ingestTmp
       /\ lastCall'.op # "process_s3_object" => docTable' = docTable
       /\ \A k \in DOMAIN docTable : docTable[k] \in Statuses]_vars

\* a completed document was indexed again and the run failed
C34_Witness ==
    /\ lastCall.op = "process_s3_object"
    /\ lastCall.rerun
    /\ lastCall.statuses = <<"processing", "failed">>
    /\ \E k \in DOMAIN docTable : docTable[k] = "pending"

----------------------------------------------------------------------------
(* Deleting a document *)

IsDelete(call) == call.op = "delete_document_record"

\* the raw document and the parts of the index artifact of the call's
\* document that are in the bucket
Remaining(bucket, call) ==
    {o \in {RawObj(call.document[1], call.document[2], call.document[3])}
          \cup {VectorObj(call.document[1], call.document[2],
                          call.document[3], e) : e \in IndexParts} :
        o \in DOMAIN bucket}

\* C35 (as claimed): delete_document_record stops with a 500 at the first
\* step that fails, so the metadata record is removed only when the raw
\* document and both parts of the index artifact are gone, and a 204 means
\* that the record, the raw document and the artifact are all absent.
C35_DeleteCascade ==
    [][IsDelete(lastCall') =>
         LET k == <<CompositeKey(lastCall'.document[1], lastCall'.document[2]),
                    lastCall'.document[3]>>
         IN  /\ (k \in DOMAIN docTable /\ k \notin DOMAIN docTable')
                => Remaining(s3Objects', lastCall') = {}
             /\ lastCall'.status_code = 204
                => /\ k \notin DOMAIN docTable'
                   /\ Remaining(s3Objects', lastCall') = {}
             /\ (lastCall'.found /\ lastCall'.kept # {})
                => /\ lastCall'.status_code = 500
                   /\ docTable' = docTable]_vars

----------------------------------------------------------------------------
(* The keys of an index artifact in the three components *)

\* {owner}/{collection}/vector_store/{document}.faiss and .pkl in the vector
\* store bucket
ArtifactObjects(owner_id, srd_id, document_id) ==
    {<<"VECTOR_STORE_BUCKET",
       owner_id \o <<"/">> \o srd_id \o <<"/", "vector_store", "/">>
           \o document_id \o <<ext>>>> : ext \in {".faiss", ".pkl"}}

\* C36: for every document the objects the indexer uploads for its index
\* artifact, the objects get_tenant_index downloads for it and the objects
\* delete_document_record deletes for it are the same two objects,
\* {owner}/{collection}/vector_store/{document}.faiss and .pkl.
C36_ArtifactKeysAgree ==
    [][/\ (/\ lastCall'.op = "process_s3_object"
           /\ lastCall'.stage = "ok"
           /\ lastCall'.uploaded = IndexParts)
          => LET x == lastCall'.document
             IN  /\ ArtifactObjects(x[1], x[2], x[3]) \subseteq DOMAIN s3Objects'
                 /\ DOMAIN s3Objects' \ DOMAIN s3Objects
                       \subseteq ArtifactObjects(x[1], x[2], x[3])
       /\ (/\ lastCall'.op = "get_tenant_index"
           /\ lastCall'.outcome \in {"built", "none"}
           /\ lastCall'.dbCalls = 1
           /\ lastCall'.env = "none"
           /\ lastCall'.faults = NoFaults)
          => lastCall'.loaded
               = {d \in CompletedIn(docTable, lastCall'.key) :
                    ArtifactObjects(lastCall'.owner, lastCall'.srd, d)
                        \subseteq DOMAIN s3Objects}
       /\ (IsDelete(lastCall') /\ lastCall'.found /\ lastCall'.kept = {})
          => LET x == lastCall'.document
             IN  DOMAIN s3Objects \ DOMAIN s3Objects'
                   = (ArtifactObjects(x[1], x[2], x[3])
                        \cup {RawObj(x[1], x[2], x[3])})
                       \cap DOMAIN s3Objects]_vars

\* a document that was indexed and loaded into a composite was deleted with
\* its artifact
C36_Witness ==
    /\ IsDelete(lastCall)
    /\ lastCall.found
    /\ lastCall.kept = {}
    /\ ArtifactObjects(lastCall.document[1], lastCall.document[2],
                       lastCall.document[3]) \cap DOMAIN s3Objects = {}
    /\ \E i \in 1..Len(FAISS_INDEX_CACHE) :
          ArtifactOf(lastCall.document[1], lastCall.document[2],
                     lastCall.document[3]) \in Range(FAISS_INDEX_CACHE[i].store)

----------------------------------------------------------------------------
(* A None return and the cache *)

\* C37: a get_tenant_index call that returns None leaves the index cache as
\* it was: no entry is inserted for its tenant key and no entry is evicted;
\* a call for a key that is not cached queries the metadata store again.
C37_NotFoundLeavesCache ==
    [][lastCall'.op = "get_tenant_index"
       => /\ lastCall'.outcome = "none"
             => /\ FAISS_INDEX_CACHE' = FAISS_INDEX_CACHE
                /\ lastCall'.key \notin CacheKeys(FAISS_INDEX_CACHE')
                /\ lastCall'.evicted = NoKey
                /\ insertLog' = insertLog
          /\ lastCall'.key \notin CacheKeys(FAISS_INDEX_CACHE)
             => lastCall'.dbCalls = 1]_vars

\* a second None in a row for the same key, with the cache full
C37_Witness ==
    /\ lastCall.op = "get_tenant_index"
    /\ lastCall.outcome = "none"
    /\ lastCall.dbCalls = 1
    /\ Len(FAISS_INDEX_CACHE) = MAX_CACHE_SIZE
    /\ lastCall.key \notin CacheKeys(FAISS_INDEX_CACHE)

\* None because no artifact of the completed documents could be loaded
C37_WitnessNoneLoaded ==
    /\ lastCall.op = "get_tenant_index"
    /\ lastCall.outcome = "none"
    /\ lastCall.s3Calls > 0
    /\ FAISS_INDEX_CACHE # <<>>

----------------------------------------------------------------------------
(* The status a finished indexing run leaves *)

\* C38 (as claimed): when a run of process_s3_object that has set the status
\* processing returns or raises, also after a failed status update or a
\* failed removal, the document's status is completed or failed, and it is
\* completed only if both parts of its index artifact are in the bucket.
C38_NeverLeftProcessing ==
    (IsIngest(lastCall) /\ lastCall.statuses # <<>>)
    => LET x == lastCall.document
           status == docTable[<<CompositeKey(x[1], x[2]), x[3]>>]
       IN  /\ status \in {"completed", "failed"}
           /\ status = "completed" => Loadable(s3Objects, x[1], x[2], x[3])

----------------------------------------------------------------------------
(* Isolation of tenants *)

\* C39 (as claimed): an answer found in the answer cache is returned only to
\* a generation query of the owner, the collection and the query text the
\* answer was stored for, whatever characters the identifiers and the text
\* contain.
C39_AnswerCacheIsolation ==
    (IsQuery(lastCall) /\ Source(lastCall.result) = "cache")
    => /\ lastCall.invoke
       /\ lastCall.lookup.owner_id = lastCall.owner
       /\ lastCall.lookup.srd_id = lastCall.srd
       /\ lastCall.lookup.query_text = lastCall.query_text

\* C40 (as claimed): the composite get_tenant_index returns for an owner and
\* a collection holds chunks of documents of that owner and collection only,
\* whatever characters the identifiers contain.
C40_IndexCacheIsolation ==
    (lastCall.op = "get_tenant_index" /\ lastCall.outcome \in {"hit", "built"})
    => Range(lastCall.store)
         \subseteq {ArtifactOf(lastCall.owner, lastCall.srd, d) : d \in DocIds}

====
